---- MODULE Spec2Model ----
(***************************************************************************)
(* Model of the forecasting core of Desktop/Test_API/logic.py:             *)
(* SmartPredictor (Smart Duration, model selection, forecasting, anomaly   *)
(* detection) and the module boundary predict_from_file_content.           *)
(*                                                                         *)
(* A monthly series is the column df['montant'], a sequence of integer     *)
(* amounts.  Log lines are the source's messages with the interpolated     *)
(* numbers left out.  The numerical libraries (statsmodels, TensorFlow,    *)
(* Prophet) are the environment: each outcome they can produce is an       *)
(* input of the action that calls them.                                    *)
(***************************************************************************)
EXTENDS Integers, Sequences, FiniteSets, TLC

VARIABLES
    predictor,  \* the SmartPredictor object: df, model_name, order, seasonal_order, logs, _last_duration_reason
    call,       \* the last operation invoked and its arguments
    ret,        \* the months calculate_and_validate_duration returned
    result,     \* the record get_prediction_data or predict_from_file_content
                \* returned, or the exception that left analyze_and_configure
    calls,      \* number of operations invoked so far
    cleaner,    \* the DataCleaner of predict_from_file_content: its logs
    held,       \* the first record a caller got back and still holds: its
                \* explanations list as returned and as it reads now
    http,       \* the last exchange with the service of main.py and
                \* db_endpoints.py: the request, the response, what ran for it
    db          \* the tables users, uploaded_files, predictions, anomalies

vars == <<predictor, call, ret, result, calls, cleaner, held, http, db>>

----------------------------------------------------------------------------
(* Bounds of the exploration *)

MaxActive == 76      \* months with a positive amount in a generated series
MaxGap == 70         \* length of the run of empty months of a sparse series
MaxNeg == 1          \* months with a negative amount
MaxLowRequest == 6   \* small requested horizons range over -1..MaxLowRequest
MaxCalls == 2        \* operations invoked on one SmartPredictor

----------------------------------------------------------------------------
(* Monthly series *)

\* A frame of p positive months, z empty months and g negative months.
\* flat makes all positive amounts equal.
MakeSeries(p, z, g, flat) ==
    [i \in 1..(p + z + g) |->
        IF i <= p THEN (IF flat THEN 5 ELSE 5 + (i % 2))
        ELSE IF i <= p + z THEN 0
        ELSE -3]

MakeFrame(montant) == [has_montant |-> TRUE, montant |-> montant]

\* A frame without the 'montant' column: self.df['montant'] raises.
BadFrame == [has_montant |-> FALSE, montant |-> <<>>]

GapLengths == {0, 1, MaxGap}

DurationFrames ==
    { MakeFrame(MakeSeries(p, z, g, flat)) :
        p \in (0..MaxActive) \cup {200}, z \in GapLengths, g \in 0..MaxNeg, flat \in BOOLEAN }
    \cup {BadFrame}

----------------------------------------------------------------------------
(* The caller's request user_months / months *)

None == [kind |-> "none", val |-> 0, text |-> <<>>]
IntMonths(n) == [kind |-> "int", val |-> n, text |-> <<>>]
StrMonths(t) == [kind |-> "str", val |-> 0, text |-> t]

Digits == {"0", "1", "2", "3", "4", "5", "6", "7", "8", "9"}

DigitValue(c) ==
    CASE c = "0" -> 0 [] c = "1" -> 1 [] c = "2" -> 2 [] c = "3" -> 3
      [] c = "4" -> 4 [] c = "5" -> 5 [] c = "6" -> 6 [] c = "7" -> 7
      [] c = "8" -> 8 [] c = "9" -> 9

RECURSIVE DecimalValue(_)
DecimalValue(t) ==
    IF t = <<>> THEN 0
    ELSE 10 * DecimalValue(SubSeq(t, 1, Len(t) - 1)) + DigitValue(t[Len(t)])

\* int() that turns what it cannot parse into 0
PyInt_Lenient(user_months) ==
    IF user_months.kind = "int"
    THEN [ok |-> TRUE, val |-> user_months.val]
    ELSE [ok |-> TRUE, val |-> DecimalValue(SelectSeq(user_months.text, LAMBDA c : c \in Digits))]

\* int(user_months): an int is itself, a string of decimal digits is its
\* value, any other string raises ValueError.
PyInt(user_months) ==
    IF user_months.kind = "int"
    THEN [ok |-> TRUE, val |-> user_months.val]
    ELSE IF user_months.text # <<>> /\ \A i \in DOMAIN user_months.text : user_months.text[i] \in Digits
         THEN [ok |-> TRUE, val |-> DecimalValue(user_months.text)]
         ELSE [ok |-> FALSE, val |-> 0]

IntRequests ==
    { IntMonths(n) : n \in (-1..MaxLowRequest) \cup {23, 24, 25, 36} }

StrRequests ==
    { StrMonths(t) : t \in {<<>>, <<"a", "b", "c">>, <<"1", "x">>, <<"5">>, <<"1", "2">>} }

UserMonths == {None} \cup IntRequests \cup StrRequests

----------------------------------------------------------------------------
(* SmartPredictor.__init__ *)

NoReason == [text |-> "", requested |-> None, safe |-> 0]

SmartPredictor(df_data) ==
    [ df |-> df_data,
      model_name |-> "Inconnu",
      order |-> <<0, 0, 0>>,
      seasonal_order |-> <<0, 0, 0, 0>>,
      logs |-> <<>>,
      has_reason |-> FALSE,           \* whether _last_duration_reason was ever set
      reason |-> NoReason ]

\* self._log(msg) for a run of messages
Log(self, msgs) == [self EXCEPT !.logs = @ \o msgs]

----------------------------------------------------------------------------
(* SmartPredictor.calculate_and_validate_duration ("Smart Duration") *)

MIN_MONTHS == 3
MAX_MONTHS == 24
SPARSE_PERCENT == 20
DEFAULT_MONTHS == 12     \* returned by the except branch

Min(a, b) == IF a < b THEN a ELSE b
Max(a, b) == IF a > b THEN a ELSE b

\* counting the months with montant >= 0
ActiveMonths_NonNegative(montant) == Cardinality({i \in DOMAIN montant : montant[i] >= 0})

\* (self.df['montant'] > 0).sum()
ActiveMonths(montant) == Cardinality({i \in DOMAIN montant : montant[i] > 0})

\* the test data_density < 10
IsSparse_BelowTenth(active_months, total_months) ==
    IF total_months > 0
    THEN active_months * 100 < 10 * total_months
    ELSE TRUE

\* data_density = (active_months / total_months) * 100 if total_months > 0 else 0
\* and the test data_density < 20, in integer arithmetic
IsSparse(active_months, total_months) ==
    IF total_months > 0
    THEN active_months * 100 < SPARSE_PERCENT * total_months
    ELSE 0 < SPARSE_PERCENT

\* int(active_months / 3): active_months is never negative
RawSafeDuration(active_months) == active_months \div 3

\* the clamp without its upper bound
ClampDuration_NoMax(safe_duration) == Max(MIN_MONTHS, safe_duration)

\* max(MIN_MONTHS, min(safe_duration, MAX_MONTHS))
ClampDuration(safe_duration) == Max(MIN_MONTHS, Min(safe_duration, MAX_MONTHS))

SetReason(self, text, requested, safe) ==
    [self EXCEPT !.has_reason = TRUE,
                 !.reason = [text |-> text, requested |-> requested, safe |-> safe]]

\* the override accepted whatever the length of the history
OverrideAccepted_NoHistory(requested, total_months) == requested <= MAX_MONTHS

\* a validator that never reduces a request
OverrideAccepted_Always(requested, total_months) == TRUE

\* if requested <= MAX_MONTHS and requested <= total_months
OverrideAccepted(requested, total_months) ==
    requested <= MAX_MONTHS /\ requested <= total_months

\* ETAPE D : the decision once the safe duration is known.
\* Returns the value returned and the predictor after the call.
DecideDuration(self, user_months, safe_duration, total_months, sparse) ==
    IF user_months.kind = "none"
    THEN [value |-> safe_duration,
          self |-> SetReason(
              Log(self, <<"MODE AUTO : Duree selectionnee", "(Utilisateur n'a pas specifie)">>),
              IF sparse THEN "MODE AUTO - sparsity detected" ELSE "MODE AUTO",
              user_months, safe_duration)]
    ELSE LET parsed == PyInt(user_months)
             requested == parsed.val
         IN  IF ~parsed.ok
             THEN [value |-> safe_duration,
                   self |-> SetReason(
                       Log(self, <<"Valeur months non numerique : rejetee">>),
                       "INVALID USER REQUEST (%s)", user_months, safe_duration)]
             ELSE IF requested <= safe_duration
             THEN [value |-> requested,
                   self |-> SetReason(
                       Log(self, <<"APPROUVE : %d mois (<= duree sure)">>),
                       "USER OVERRIDE (%d <= safe %d)", IntMonths(requested), safe_duration)]
             ELSE IF OverrideAccepted(requested, total_months)
             THEN [value |-> requested,
                   self |-> SetReason(
                       Log(self, <<"APPROUVE (USER OVERRIDE) : %d mois (dans limites et historique suffisant)">>),
                       "USER OVERRIDE (%d)", IntMonths(requested), safe_duration)]
             ELSE [value |-> safe_duration,
                   self |-> SetReason(
                       Log(self, <<"SECURITE STATISTIQUE  Duree reduite",
                                   "   - Demande : %d mois",
                                   "   - Limite sure : %d mois",
                                   "   - Raison : Donnees insuffisantes pour predire %d mois",
                                   "   - Decision : Utiliser %d mois (rejette %d)">>),
                       "USER REQUEST REDUCED (%d -> %d)", IntMonths(requested), safe_duration)]

SPARSE_WARNING == "ATTENTION : Donnees TRES SPARSE (< 20%) - Previsions peu fiables"

calculate_and_validate_duration(self, user_months) ==
    LET s0 == Log(self, <<"======", "ANALYSE DE LA DENSITE DES DONNEES (Smart Duration)", "======">>)
    IN  IF ~self.df.has_montant
        THEN \* except Exception: the reason of an earlier call, if any, is kept
             [value |-> DEFAULT_MONTHS,
              self |-> Log(s0, <<"Erreur lors de calculate_and_validate_duration",
                                 "Utiliser duree par defaut : 12 mois">>)]
        ELSE LET total_months == Len(self.df.montant)
                 active_months == ActiveMonths(self.df.montant)
                 sparse == IsSparse(active_months, total_months)
                 raw == RawSafeDuration(active_months)
                 safe_duration == ClampDuration(raw)
                 s1 == Log(s0, <<"Periode couverte : %d mois",
                                 "Mois ACTIFS (montant > 0) : %d",
                                 "Densite : %.1f%%">>)
                 s2 == IF sparse THEN Log(s1, <<SPARSE_WARNING>>) ELSE s1
                 s3 == Log(s2, <<"Duree brute (active_months / 3)">>)
                 s4 == IF safe_duration # raw
                       THEN Log(s3, <<"Apres clamping [3, 24] : %d mois">>)
                       ELSE s3
             IN  DecideDuration(s4, user_months, safe_duration, total_months, sparse)

----------------------------------------------------------------------------
(* Scores and the adapters of the tournament *)

Num(v) == [kind |-> "num", val |-> v]
Inf == [kind |-> "inf", val |-> 0]            \* float('inf')
NaN == [kind |-> "nan", val |-> 0]
PyNone == [kind |-> "none", val |-> 0]        \* a function falling off its end

\* What a library fit produces: a score, a NaN score, or an exception.
FitError == [kind |-> "error", val |-> 0]

\* score < float('inf'); comparing None with a float raises TypeError
LtInf(score) == score.kind = "num"

LOOK_BACK == 12
VAR_MIN_ROWS == 10
SEASON_MIN_ROWS == 24

Rows(self) == Len(self.df.montant)

\* _calculer_aic(order, seasonal_order): results.aic, or inf with a log line
_calculer_aic(self, outcome) ==
    IF outcome.kind = "error"
    THEN [score |-> Inf, self |-> Log(self, <<"Erreur lors du calcul AIC pour order">>)]
    ELSE [score |-> outcome, self |-> self]

_fit_holtwinters(self, env) ==
    IF env.fit["hw"].kind = "error"
    THEN [score |-> Inf, self |-> Log(self, <<"HoltWinters error">>)]
    ELSE [score |-> env.fit["hw"], self |-> self]

_fit_prophet(self, env) ==
    IF ~env.prophet
    THEN [score |-> Inf, self |-> Log(self, <<"Prophet non installe - ignore">>)]
    ELSE IF env.fit["prophet"].kind = "error"
    THEN [score |-> Inf, self |-> Log(self, <<"Prophet error">>)]
    ELSE [score |-> env.fit["prophet"], self |-> self]

\* _fit_lstm stops after its imports: with TensorFlow present it returns None
_fit_lstm(self, env) ==
    IF ~env.tensorflow
    THEN [score |-> Inf, self |-> Log(self, <<"TensorFlow non installe - LSTM ignore">>)]
    ELSE [score |-> PyNone, self |-> self]

\* _fit_cnn, _fit_gru, _fit_rnn
FitDeep(self, env, key) ==
    IF ~env.tensorflow
    THEN [score |-> Inf, self |-> Log(self, <<"TensorFlow non installe - ignore">>)]
    ELSE IF Rows(self) < LOOK_BACK * 2
    THEN [score |-> Inf, self |-> Log(self, <<"Pas assez de donnees pour le reseau">>)]
    ELSE IF env.fit[key].kind = "error"
    THEN [score |-> Inf, self |-> Log(self, <<"training error">>)]
    ELSE [score |-> env.fit[key], self |-> self]

_fit_sarimax_exog(self, env) ==
    IF env.fit["exog"].kind = "error"
    THEN [score |-> Inf, self |-> Log(self, <<"SARIMAX exog error">>)]
    ELSE [score |-> env.fit["exog"], self |-> Log(self, <<"SARIMAX exog (trend) fitted">>)]

\* _fit_var, _fit_varma
FitVector(self, env, key, available) ==
    IF ~available
    THEN [score |-> Inf, self |-> Log(self, <<"non disponible (statsmodels version)">>)]
    ELSE IF Rows(self) < VAR_MIN_ROWS
    THEN [score |-> Inf, self |-> Log(self, <<"Pas assez de donnees pour VAR/VARMA">>)]
    ELSE IF env.fit[key].kind = "error"
    THEN [score |-> Inf, self |-> Log(self, <<"VAR/VARMA error">>)]
    ELSE [score |-> env.fit[key], self |-> Log(self, <<"VAR/VARMA fitted">>)]

----------------------------------------------------------------------------
(* Candidate names, as the strings the selection tests with `in` *)

N_SARIMA == <<"S", "A", "R", "I", "M", "A", "(", "1", ",", "0", ",", "1", ")", "(", "1", ",", "1", ",", "1", ",", "1", "2", ")">>
N_ARIMA == <<"A", "R", "I", "M", "A", "(", "1", ",", "1", ",", "1", ")">>
N_AR == <<"A", "R", "(", "1", ")">>
N_MA == <<"M", "A", "(", "1", ")">>
N_ARMA == <<"A", "R", "M", "A", "(", "1", ",", "1", ")">>
N_HoltWinters == <<"H", "o", "l", "t", "W", "i", "n", "t", "e", "r", "s">>
N_Prophet == <<"P", "r", "o", "p", "h", "e", "t">>
N_LSTM == <<"L", "S", "T", "M">>
N_CNN == <<"C", "N", "N">>
N_GRU == <<"G", "R", "U">>
N_RNN == <<"R", "N", "N">>
N_SARIMAX_EXOG == <<"S", "A", "R", "I", "M", "A", "X", "_", "E", "X", "O", "G">>
N_VAR == <<"V", "A", "R">>
N_VARMA == <<"V", "A", "R", "M", "A">>
N_SARIMAX_DEFAULT == <<"S", "A", "R", "I", "M", "A", "X", "_", "D", "E", "F", "A", "U", "L", "T">>

\* sub in s
Contains(s, sub) ==
    \E i \in 0..(Len(s) - Len(sub)) : SubSeq(s, i + 1, i + Len(sub)) = sub

----------------------------------------------------------------------------
(* Ranking: sorted(model_scores.items(), key=score if score < inf else inf) *)

\* key(a) < key(b): an unstable order, where the later of two equal keys goes first
KeyLe_Strict(a, b) ==
    LtInf(a.score) /\ (LtInf(b.score) => a.score.val < b.score.val)

\* key(a) <= key(b)
KeyLe(a, b) ==
    IF LtInf(b.score) THEN LtInf(a.score) /\ a.score.val <= b.score.val ELSE TRUE

\* x goes after every entry whose key is not greater: the sort is stable
InsertStable(sorted, x) ==
    LET k == Cardinality({i \in DOMAIN sorted : KeyLe(sorted[i], x)})
    IN  SubSeq(sorted, 1, k) \o <<x>> \o SubSeq(sorted, k + 1, Len(sorted))

RECURSIVE SortModels(_)
SortModels(items) ==
    IF items = <<>> THEN <<>>
    ELSE InsertStable(SortModels(SubSeq(items, 1, Len(items) - 1)), items[Len(items)])

----------------------------------------------------------------------------
(* SmartPredictor.analyze_and_configure *)

Configure(self, name, order, seasonal_order) ==
    [self EXCEPT !.model_name = name, !.order = order, !.seasonal_order = seasonal_order]

NoSeason == <<0, 0, 0, 0>>

\* "Set model_name, order, seasonal_order based on choice": the first test
\* that matches decides, a name matching none leaves the fields as they are
ConfigureFor(self, best_model_name) ==
    IF Contains(best_model_name, <<"S", "A", "R", "I", "M", "A">>)
    THEN Configure(self, "SARIMA", <<1, 0, 1>>, <<1, 1, 1, 12>>)
    ELSE IF Contains(best_model_name, <<"A", "R", "I", "M", "A">>)
    THEN Configure(self, "ARIMA", <<1, 1, 1>>, NoSeason)
    ELSE IF Contains(best_model_name, <<"A", "R", "(">>)
    THEN Configure(self, "AR", <<1, 0, 0>>, NoSeason)
    ELSE IF Contains(best_model_name, <<"M", "A", "(">>)
    THEN Configure(self, "MA", <<0, 0, 1>>, NoSeason)
    ELSE IF Contains(best_model_name, <<"A", "R", "M", "A">>)
    THEN Configure(self, "ARMA", <<1, 0, 1>>, NoSeason)
    ELSE IF Contains(best_model_name, N_HoltWinters)
    THEN Configure(self, "HoltWinters", <<0, 0, 0>>, NoSeason)
    ELSE IF Contains(best_model_name, N_Prophet)
    THEN Configure(self, "Prophet", <<0, 0, 0>>, NoSeason)
    ELSE IF Contains(best_model_name, N_LSTM)
    THEN Configure(self, "LSTM", <<0, 0, 0>>, NoSeason)
    ELSE IF Contains(best_model_name, N_CNN)
    THEN Configure(self, "CNN", <<0, 0, 0>>, NoSeason)
    ELSE self

\* A candidate that always enters model_scores (ARIMA family, Holt-Winters)
AddScore(st, name, r) ==
    [st EXCEPT !.self = Log(r.self, <<"   - candidate: score">>),
               !.scores = Append(@, [name |-> name, score |-> r.score])]

\* A candidate that enters model_scores only if its score < float('inf');
\* a None score makes the comparison raise TypeError.  r is what the fit
\* returned, st the tournament so far (nothing runs once it has raised).
Optional(st, name, r) ==
    IF st.raised THEN st
    ELSE IF r.score.kind = "none"
    THEN [st EXCEPT !.self = r.self, !.raised = TRUE]
    ELSE IF LtInf(r.score)
    THEN [st EXCEPT !.self = Log(r.self, <<"   - candidate: score">>),
                    !.scores = Append(@, [name |-> name, score |-> r.score])]
    ELSE [st EXCEPT !.self = Log(r.self, <<"   - candidate: non disponible">>)]

\* 1a) the ARIMA/SARIMA candidates
ClassicalCandidates(st, env, has_seasonality, is_stationary) ==
    LET st1 == IF has_seasonality /\ Rows(st.self) >= SEASON_MIN_ROWS
               THEN AddScore(st, N_SARIMA, _calculer_aic(st.self, env.fit["sarima"]))
               ELSE st
    IN  IF ~is_stationary
        THEN AddScore(st1, N_ARIMA, _calculer_aic(st1.self, env.fit["arima"]))
        ELSE LET ar == _calculer_aic(st1.self, env.fit["ar"])
                 ma == _calculer_aic(ar.self, env.fit["ma"])
                 arma == _calculer_aic(ma.self, env.fit["arma"])
             IN  [st1 EXCEPT !.self = Log(arma.self, <<"   - AR(1): AIC", "   - MA(1): AIC", "   - ARMA(1,1): AIC">>),
                             !.scores = @ \o << [name |-> N_AR, score |-> ar.score],
                                                [name |-> N_MA, score |-> ma.score],
                                                [name |-> N_ARMA, score |-> arma.score] >>]

\* 2) to 10): one adapter each; st is the tournament so far
TryHoltWinters(st, env) ==
    AddScore(st, N_HoltWinters, _fit_holtwinters(Log(st.self, <<"2 Holt-Winters...">>), env))

TryProphet(st, env) ==
    Optional(st, N_Prophet, _fit_prophet(Log(st.self, <<"3 Prophet...">>), env))

TryLSTM(st, env) ==
    Optional(st, N_LSTM, _fit_lstm(Log(st.self, <<"4 Deep Learning (LSTM)...">>), env))

TryCNN(st, env) ==
    Optional(st, N_CNN, FitDeep(Log(st.self, <<"5 Deep Learning (CNN)...">>), env, "cnn"))

TryGRU(st, env) ==
    Optional(st, N_GRU, FitDeep(Log(st.self, <<"6 Deep Learning (GRU)...">>), env, "gru"))

TryRNN(st, env) ==
    Optional(st, N_RNN, FitDeep(Log(st.self, <<"7 Deep Learning (RNN)...">>), env, "rnn"))

TrySarimaxExog(st, env) ==
    Optional(st, N_SARIMAX_EXOG,
             _fit_sarimax_exog(Log(st.self, <<"8 SARIMAX (with exogenous trend)...">>), env))

TryVAR(st, env) ==
    Optional(st, N_VAR, FitVector(Log(st.self, <<"9 VAR (Vector Autoregression)...">>), env, "var", env.var))

TryVARMA(st, env) ==
    Optional(st, N_VARMA, FitVector(Log(st.self, <<"10 VARMA (Vector ARMA)...">>), env, "varma", env.varmax))

\* ETAPE 2 : every adapter in registration order
Tournament(self, env, has_seasonality, is_stationary) ==
    LET st0 == [self |-> Log(self, <<"ETAPE 2 : EVALUATION DE TOUS LES MODELES", "------", "1 Modeles ARIMA/SARIMA...">>),
                scores |-> <<>>, raised |-> FALSE]
        st1 == ClassicalCandidates(st0, env, has_seasonality, is_stationary)
        st2 == TryHoltWinters(st1, env)
        st3 == TryProphet(st2, env)
        st4 == TryLSTM(st3, env)
        st5 == TryCNN(st4, env)
        st6 == TryGRU(st5, env)
        st7 == TryRNN(st6, env)
        st8 == TrySarimaxExog(st7, env)
        st9 == TryVAR(st8, env)
    IN  TryVARMA(st9, env)

RankingLines(sorted_models) ==
    [i \in DOMAIN sorted_models |->
        IF LtInf(sorted_models[i].score) THEN "   %d. %s: %f" ELSE "   %d. %s: N/A (non disponible)"]

\* best_model_name, best_score = sorted_models[0] if sorted_models else (default, inf)
BestOf(sorted_models) ==
    IF sorted_models # <<>> THEN sorted_models[1]
    ELSE [name |-> N_SARIMAX_DEFAULT, score |-> Inf]

\* ETAPE 3 : ranking and choice
ChooseBest(self, model_scores) ==
    LET sorted_models == SortModels(model_scores)
        best == BestOf(sorted_models)
        s1 == Log(self, <<"ETAPE 3 : CLASSEMENT & CHOIX DU MEILLEUR MODELE", "------", "Classement (meilleur -> pire):">>
                         \o RankingLines(sorted_models)
                         \o <<"MEILLEUR MODELE CHOISI">>)
    IN  Log(ConfigureFor(s1, best.name), <<"Configuration finale">>)

\* adfuller(x) with its default regression and lag: statsmodels takes
\* maxlag = min(nobs // 2 - 2, ...) and raises "sample size is too short"
\* when that is negative, so on fewer than 4 observations it cannot return
ADF_MIN_ROWS == 4

\* The except clause without its raise
AnalyzeFails_Swallowed(self) ==
    [raised |-> FALSE, model_scores |-> <<>>,
     self |-> Configure(Log(self, <<"ERREUR lors de l'analyse">>), "SARIMAX", <<1, 0, 1>>, <<1, 1, 1, 12>>)]

\* except Exception: log, fall back to a SARIMAX configuration, re-raise
AnalyzeFails(self) ==
    [raised |-> TRUE, model_scores |-> <<>>,
     self |-> Configure(Log(self, <<"ERREUR lors de l'analyse">>), "SARIMAX", <<1, 0, 1>>, <<1, 1, 1, 12>>)]

analyze_and_configure(self, env) ==
    LET s0 == Log(self, <<"+------+", "SELECTION AUTOMATIQUE & INTELLIGENTE DE MODELE",
                          "(Classique + Deep Learning)", "+------+",
                          "ETAPE 1 : DIAGNOSTIQUE DE LA SERIE", "------">>)
    IN  IF ~self.df.has_montant \/ env.adf = "raise" \/ Rows(self) < ADF_MIN_ROWS
        THEN AnalyzeFails(s0)
        ELSE LET is_stationary == env.adf = "stationary"
                 enough == Rows(self) >= SEASON_MIN_ROWS
                 has_seasonality == enough /\ env.decompose = "seasonal"
                 s1 == Log(s0, <<"Test ADF: p-value",
                                 IF ~enough THEN "Pas assez de donnees pour saisonnalite (< 24 mois)"
                                 ELSE IF env.decompose = "raise" THEN "Impossible de calculer saisonnalite"
                                 ELSE "Saisonnalite: amplitude">>)
                 st == Tournament(s1, env, has_seasonality, is_stationary)
             IN  IF st.raised
                 THEN AnalyzeFails(st.self)
                 ELSE [raised |-> FALSE, model_scores |-> st.scores,
                       self |-> ChooseBest(st.self, st.scores)]

----------------------------------------------------------------------------
(* SmartPredictor._detect_anomalies *)

RECURSIVE SumSeq(_)
SumSeq(q) ==
    IF Len(q) = 0 THEN 0
    ELSE IF Len(q) = 1 THEN q[1]
    ELSE LET h == Len(q) \div 2
         IN  SumSeq(SubSeq(q, 1, h)) + SumSeq(SubSeq(q, h + 1, Len(q)))

Abs(x) == IF x < 0 THEN -x ELSE x

\* residuals.std() is the sample standard deviation (ddof = 1):
\* std^2 = num / den, undefined (NaN) below two residuals
Variance(resid) ==
    [ nan |-> Len(resid) < 2,
      num |-> Len(resid) * SumSeq([i \in DOMAIN resid |-> resid[i] * resid[i]]) - SumSeq(resid) * SumSeq(resid),
      den |-> Len(resid) * (Len(resid) - 1) ]

\* a detection without the guard on a zero standard deviation
StdIsZero_Unguarded(var) == FALSE

\* std_residuals == 0
StdIsZero(var) == ~var.nan /\ var.num = 0

\* abs(residual) / std > k: a threshold that excludes its boundary
AtLeastSigmas_Strict(residual, k, var) ==
    /\ ~var.nan
    /\ residual * residual * var.den > k * k * var.num

\* abs(residual) / std >= (k * std) / std; every comparison with NaN is false
AtLeastSigmas(residual, k, var) ==
    /\ ~var.nan
    /\ residual * residual * var.den >= k * k * var.num

THRESHOLD_MEDIUM == 2
THRESHOLD_HIGH == 3

Severity(residual, var) ==
    IF AtLeastSigmas(residual, THRESHOLD_HIGH, var) THEN "HIGH"
    ELSE IF AtLeastSigmas(residual, THRESHOLD_MEDIUM, var) THEN "MEDIUM"
    ELSE "LOW"

SeverityOrder(severity) ==
    CASE severity = "HIGH" -> 0 [] severity = "MEDIUM" -> 1 [] severity = "LOW" -> 2 [] OTHER -> 3

\* One record of the anomaly list.  std_deviations = abs_residual / std with
\* the same std for every record, so abs_residual orders the records.
Anomaly(date, actual, predicted, var) ==
    LET residual == actual - predicted
    IN  [ date |-> date,
          actual_value |-> actual,
          predicted_value |-> predicted,
          residual |-> residual,
          abs_residual |-> Abs(residual),
          severity |-> Severity(residual, var),
          \* pct_deviation = abs(residual) / predicted * 100 if predicted != 0 else 0
          pct_num |-> IF predicted # 0 THEN Abs(residual) * 100 ELSE 0,
          pct_den |-> IF predicted # 0 THEN predicted ELSE 1,
          direction |-> IF residual > 0 THEN "superieure" ELSE "inferieure" ]

\* key(a) >= key(b) for key = (severity_order, std_deviations)
AnomalyKeyGe(a, b) ==
    \/ SeverityOrder(a.severity) > SeverityOrder(b.severity)
    \/ /\ SeverityOrder(a.severity) = SeverityOrder(b.severity)
       /\ a.abs_residual >= b.abs_residual

\* anomalies.sort(key=..., reverse=True): descending keys, equal keys keep
\* their order
InsertAnomaly(sorted, x) ==
    LET k == Cardinality({i \in DOMAIN sorted : AnomalyKeyGe(sorted[i], x)})
    IN  SubSeq(sorted, 1, k) \o <<x>> \o SubSeq(sorted, k + 1, Len(sorted))

RECURSIVE SortAnomalies(_)
SortAnomalies(q) ==
    IF q = <<>> THEN <<>>
    ELSE InsertAnomaly(SortAnomalies(SubSeq(q, 1, Len(q) - 1)), q[Len(q)])

\* The loop over self.df['montant'].items(): the records of the months whose
\* severity is at least MEDIUM, in date order
FlaggedMonths(montant, resid, var) ==
    LET flagged == {i \in DOMAIN montant : i \in DOMAIN resid /\ AtLeastSigmas(resid[i], THRESHOLD_MEDIUM, var)}
        Nth(k) == CHOOSE i \in flagged : Cardinality({j \in flagged : j <= i}) = k
    IN  [k \in 1..Cardinality(flagged) |-> Anomaly(Nth(k), montant[Nth(k)], montant[Nth(k)] - resid[Nth(k)], var)]

\* results.resid / results.fittedvalues: fitted = actual - residual
_detect_anomalies(self, results) ==
    LET s0 == Log(self, <<"======", "DETECTION D'ANOMALIES (AI for Audit)", "======">>)
    IN  IF ~results.has_resid
        THEN [anomalies |-> <<>>, self |-> Log(s0, <<"Erreur lors de la detection d'anomalies">>)]
        ELSE LET var == Variance(results.resid)
                 s1 == Log(s0, <<"Statistiques des residus :", "   - Moyenne", "   - Ecart-type">>)
             IN  IF StdIsZero(var)
                 THEN [anomalies |-> <<>>, self |-> Log(s1, <<"Ecart-type = 0. Pas d'anomalies detectables.">>)]
                 ELSE LET found == FlaggedMonths(self.df.montant, results.resid, var)
                          s2 == Log(s1, [i \in DOMAIN found |-> "  anomalie : description"])
                          s3 == Log(s2, IF found = <<>>
                                        THEN <<"Aucune anomalie detectee (tous les residus < 2 sigma)">>
                                        ELSE <<"%d anomalie(s) detectee(s)">>)
                      IN  [anomalies |-> SortAnomalies(found), self |-> s3]

----------------------------------------------------------------------------
(* Result records *)

\* A list held by a record: either the predictor's own self.logs (the same
\* object, so later _log calls show through) or a list of its own.
SelfLogs(self) == [alias |-> TRUE, items |-> self.logs]
OwnList(items) == [alias |-> FALSE, items |-> items]

NoInfo == [name |-> "", order |-> <<>>, seasonal_order |-> <<>>, aic |-> Inf]
NoSeries == [dates |-> <<>>, values |-> <<>>]
NoForecast == [dates |-> <<>>, values |-> <<>>, confidence_upper |-> <<>>, confidence_lower |-> <<>>]
NoDuration == [requested_months |-> None, validated_months |-> 0, reason |-> NoReason]

\* keys is the set of keys the dict has; a field outside keys is a filler
BlankRecord ==
    [ keys |-> {}, status |-> "", error_message |-> "", explanations |-> OwnList(<<>>),
      model_info |-> NoInfo, history |-> NoSeries, forecast |-> NoForecast,
      anomalies |-> <<>>, duration_info |-> NoDuration ]

ErrorRecord(message, explanations) ==
    [BlankRecord EXCEPT !.keys = {"status", "error_message", "explanations"},
                        !.status = "error",
                        !.error_message = message,
                        !.explanations = explanations]

\* An exception leaving a function instead of a record
Raised(message) ==
    [BlankRecord EXCEPT !.status = "exception", !.error_message = message]

\* d.strftime('%Y-%m-%d') for d in self.df.index: month i of the series is date i
History(self) ==
    [dates |-> [i \in DOMAIN self.df.montant |-> i], values |-> self.df.montant]

\* range(n) is empty for n <= 0, and so is [x] * n
Repeat(x, n) == [i \in 1..n |-> x]

----------------------------------------------------------------------------
(* SmartPredictor.get_prediction_data *)

\* montant.nunique()
NUnique(montant) == Cardinality({montant[i] : i \in DOMAIN montant})

\* The naive record of a constant series
NaiveRecord(self, months, validated_months, reason) ==
    LET last_value == self.df.montant[Len(self.df.montant)]
        last_date == Len(self.df.montant)
    IN  [BlankRecord EXCEPT
            !.keys = {"status", "model_info", "explanations", "history", "forecast", "timestamp", "duration_info"},
            !.status = "success",
            !.model_info = [name |-> "NAIVE_CONSTANT", order |-> self.order,
                            seasonal_order |-> self.seasonal_order, aic |-> Num(0)],
            !.explanations = SelfLogs(self),
            !.history = History(self),
            !.forecast = [dates |-> [i \in 1..validated_months |-> last_date + i],
                          values |-> Repeat(last_value, validated_months),
                          confidence_upper |-> Repeat(last_value, validated_months),
                          confidence_lower |-> Repeat(last_value, validated_months)],
            !.duration_info = [requested_months |-> months, validated_months |-> validated_months, reason |-> reason]]

\* The record of a fitted SARIMAX; results is what fit() returned
FittedRecord(self, months, validated_months, reason, results, anomalies) ==
    LET last_date == Len(self.df.montant)
    IN  [BlankRecord EXCEPT
            !.keys = {"status", "model_info", "explanations", "history", "forecast", "anomalies", "timestamp", "duration_info"},
            !.status = "success",
            !.model_info = [name |-> self.model_name, order |-> self.order,
                            seasonal_order |-> self.seasonal_order, aic |-> Num(results.aic)],
            !.explanations = SelfLogs(self),
            !.history = History(self),
            !.forecast = [dates |-> [i \in 1..validated_months |-> last_date + i],
                          values |-> Repeat(results.mean, validated_months),
                          confidence_upper |-> Repeat(results.mean + results.width, validated_months),
                          confidence_lower |-> Repeat(results.mean - results.width, validated_months)],
            !.anomalies = anomalies,
            !.duration_info = [requested_months |-> months, validated_months |-> validated_months, reason |-> reason]]

\* except Exception in get_prediction_data
PredictionFails(self, message) ==
    LET s == Log(self, <<"ERREUR lors de la prediction">>)
    IN  [value |-> ErrorRecord(message, SelfLogs(s)), self |-> s]

\* reason = getattr(self, '_last_duration_reason', None), with its fallback
DurationReason(self, months, validated_months) ==
    IF self.has_reason /\ self.reason.text # ""
    THEN self.reason
    ELSE IF months.kind = "none"
    THEN [text |-> "MODE AUTO", requested |-> months, safe |-> validated_months]
    ELSE [text |-> "USER OVERRIDE (%s -> %d)", requested |-> months, safe |-> validated_months]

get_prediction_data(self, months, results) ==
    LET d == calculate_and_validate_duration(self, months)
        validated_months == d.value
        reason == DurationReason(d.self, months, validated_months)
        s0 == Log(d.self, <<"Duree FINALE pour prediction", "=== GENERATION DE PREVISIONS ===", "Entrainement SARIMAX">>)
    IN  IF ~s0.df.has_montant
        THEN PredictionFails(s0, "KeyError: montant")
        ELSE IF NUnique(s0.df.montant) <= 1
        THEN IF s0.df.montant = <<>>
             THEN PredictionFails(s0, "single positional indexer is out-of-bounds")
             ELSE [value |-> NaiveRecord(s0, months, validated_months, reason), self |-> s0]
        ELSE IF results.kind = "error"
        THEN PredictionFails(s0, "fit failed")
        ELSE LET s1 == Log(s0, <<"Modele entraine (AIC)">>)
             IN  IF validated_months < 1
                 THEN \* get_forecast(steps) has no prediction range to return
                      PredictionFails(s1, "Prediction must have end after start.")
                 ELSE LET a == _detect_anomalies(s1, results)
                      IN  [value |-> FittedRecord(a.self, months, validated_months, reason, results, a.anomalies),
                           self |-> a.self]

----------------------------------------------------------------------------
(* DataCleaner.run *)

\* An uploaded file is described by what the cleaning finds in it: its size
\* class, whether pandas reads it, whether a date and an amount column are
\* found, and the monthly aggregate of its valid rows (empty if no row has a
\* valid date).
File(size, readable, columns, montant) ==
    [size |-> size, readable |-> readable, columns |-> columns, montant |-> montant]

CleaningFails(logs, message) ==
    [raised |-> TRUE, message |-> message, logs |-> logs \o <<"ERREUR lors du nettoyage">>, df_clean |-> BadFrame]

DataCleanerRun(file_content) ==
    LET l0 == <<"Chargement du fichier CSV...">>
    IN  IF file_content.size = "empty" THEN CleaningFails(l0, "Fichier vide ou contenu invalide")
        ELSE IF file_content.size = "too_big" THEN CleaningFails(l0, "trop volumineux")
        ELSE IF ~file_content.readable THEN CleaningFails(l0, "read_csv error")
        ELSE IF ~file_content.columns THEN CleaningFails(l0, "Impossible de trouver colonnes Date/Montant")
        ELSE LET l1 == l0 \o <<"Colonnes detectees">>
             IN  IF file_content.montant = <<>>
                 THEN CleaningFails(l1 \o <<"ERREUR : Pas de dates valides apres parsing.">>,
                                    "Aucune date valide trouvee apres parsing")
                 ELSE [raised |-> FALSE, message |-> "", logs |-> l1 \o <<"Donnees pretes : %d mois">>,
                       df_clean |-> MakeFrame(file_content.montant)]

----------------------------------------------------------------------------
(* predict_from_file_content *)

\* Etape 3 and the return: all_logs was built before get_prediction_data
\* ran; g is what get_prediction_data returned
ReturnResult(c, all_logs, g) ==
    [value |-> IF g.value.status = "exception" THEN g.value
               ELSE [g.value EXCEPT !.keys = @ \cup {"explanations"},
                                    !.explanations = OwnList(all_logs)],
     cleaner |-> [logs |-> c.logs], predictor |-> g.self, stage |-> "prediction"]

\* After predictor.analyze_and_configure(): a is its outcome
AfterAnalysis(c, a, months, env) ==
    IF a.raised
    THEN [value |-> Raised("analysis failed"),
          cleaner |-> [logs |-> c.logs], predictor |-> a.self, stage |-> "analysis"]
    ELSE ReturnResult(c, c.logs \o a.self.logs, get_prediction_data(a.self, months, env.results))

\* After cleaner.run(): c is its outcome
AfterCleaning(c, months, env) ==
    IF c.raised
    THEN [value |-> Raised(c.message),
          cleaner |-> [logs |-> c.logs], predictor |-> SmartPredictor(BadFrame), stage |-> "cleaning"]
    ELSE AfterAnalysis(c, analyze_and_configure(SmartPredictor(c.df_clean), env), months, env)

\* The body of the try block: the record, or the exception that left it,
\* and the cleaner and predictor it built (its locals)
PipelineBody(file_content, months, env) ==
    AfterCleaning(DataCleanerRun(file_content), months, env)

\* the exception leaving predict_from_file_content
PipelineFails_Reraise(message) == Raised(message)

\* except Exception as e: of predict_from_file_content
PipelineFails(message) == ErrorRecord(message, OwnList(<<>>))

\* try: ... except Exception as e: ...
TryExcept(b) ==
    IF b.value.status = "exception"
    THEN [b EXCEPT !.value = PipelineFails(b.value.error_message)]
    ELSE b

predict_from_file_content(file_content, months, env) ==
    TryExcept(PipelineBody(file_content, months, env))

----------------------------------------------------------------------------
(* Operations on one SmartPredictor *)

NoCleaner == [logs |-> <<>>]

\* The explanations list of a record in the caller's hands.  live: the list
\* is the self.logs object of the current predictor, which _log appends to.
NoRecordHeld == [present |-> FALSE, returned |-> <<>>, now |-> <<>>, live |-> FALSE]

Hold(record) ==
    [present |-> TRUE, returned |-> record.explanations.items,
     now |-> record.explanations.items, live |-> record.explanations.alias]

\* self.logs.append(msg) during a later call on the predictor self
AfterLogging(h, self) == IF h.present /\ h.live THEN [h EXCEPT !.now = self.logs] ELSE h

\* Another predictor object takes the place of the one that logged
AfterRebuild(h) == [h EXCEPT !.live = FALSE]

\* X-API-Key as the request carries it: Header(None) is no header at all
NoHeader == [present |-> FALSE, value |-> ""]
Header(value) == [present |-> TRUE, value |-> value]

NoInternal == [present |-> FALSE, persisted |-> FALSE, file_id |-> 0, pred_id |-> 0]

\* The upload of /predict/by-code as the route reads it: whether a code
\* column is found, whether a row has the code, and the amounts of df_export
\* (the rows of the code with a date and a readable amount, one per month)
CodeFile(code_column, code_found, rows) ==
    [code_column |-> code_column, code_found |-> code_found, rows |-> rows]

NoCodeFile == CodeFile(FALSE, FALSE, <<>>)

\* The parameters of a request; db_up: the database answers during it
Request(months, f, db_up) ==
    [months |-> months, file |-> f, db_up |-> db_up, pred_id |-> 0, severity |-> ""]

\* No request has been made
NoExchange ==
    [ endpoint |-> "", key |-> NoHeader, request |-> Request(None, NoCodeFile, TRUE),
      status |-> 0, body |-> "", record |-> BlankRecord,
      internal |-> NoInternal, engine |-> FALSE, saves |-> <<>>, rows |-> <<>>, before |-> <<>> ]

\* SQLModel.metadata.create_all(engine): the four tables; a row's primary
\* key is its position
EmptyDb == [users |-> <<>>, uploaded_files |-> <<>>, predictions |-> <<>>, anomalies |-> <<>>]

\* predictor.calculate_and_validate_duration(user_months=user_months)
CalculateAndValidateDuration(user_months) ==
    /\ calls < MaxCalls
    /\ call.op \notin {"none", "predict_from_file_content"}
    /\ LET r == calculate_and_validate_duration(predictor, user_months)
       IN  /\ predictor' = r.self
           /\ ret' = r.value
           /\ held' = AfterLogging(held, r.self)
    /\ result' = BlankRecord
    /\ call' = [op |-> "calculate_and_validate_duration", months |-> user_months, before |-> predictor]
    /\ calls' = calls + 1
    /\ UNCHANGED <<cleaner, http, db>>

\* predictor.analyze_and_configure(): returns None, or raises
AnalyzeAndConfigure(env) ==
    /\ calls < MaxCalls
    /\ call.op \notin {"none", "predict_from_file_content"}
    /\ LET r == analyze_and_configure(predictor, env)
       IN  /\ predictor' = r.self
           /\ result' = IF r.raised THEN Raised("analysis failed") ELSE BlankRecord
           /\ held' = AfterLogging(held, r.self)
    /\ ret' = 0
    /\ call' = [op |-> "analyze_and_configure", months |-> None, before |-> predictor, env |-> env,
                model_scores |-> analyze_and_configure(predictor, env).model_scores]
    /\ calls' = calls + 1
    /\ UNCHANGED <<cleaner, http, db>>

\* predictor.get_prediction_data(months=months)
GetPredictionData(months, results) ==
    /\ calls < MaxCalls
    /\ call.op \notin {"none", "predict_from_file_content"}
    /\ LET r == get_prediction_data(predictor, months, results)
       IN  /\ predictor' = r.self
           /\ result' = r.value
           /\ held' = IF held.present THEN AfterLogging(held, r.self) ELSE Hold(r.value)
    /\ ret' = 0
    /\ call' = [op |-> "get_prediction_data", months |-> months, before |-> predictor, results |-> results]
    /\ calls' = calls + 1
    /\ UNCHANGED <<cleaner, http, db>>

\* predict_from_file_content(file_content, months): builds its own cleaner
\* and predictor, which the state shows as they are when it returns
PredictFromFileContent(file_content, months, env) ==
    /\ calls < MaxCalls
    /\ LET r == predict_from_file_content(file_content, months, env)
       IN  /\ predictor' = r.predictor
           /\ cleaner' = r.cleaner
           /\ result' = r.value
           /\ held' = IF held.present THEN AfterRebuild(held) ELSE Hold(r.value)
           /\ call' = [op |-> "predict_from_file_content", months |-> months,
                       before |-> predictor, stage |-> r.stage, file_content |-> file_content, env |-> env]
    /\ ret' = 0
    /\ calls' = calls + 1

\* SmartPredictor(df_data)
NewPredictor(df_data) ==
    /\ call.op = "none"
    /\ predictor' = SmartPredictor(df_data)
    /\ call' = [op |-> "SmartPredictor", months |-> None, before |-> predictor]
    /\ held' = AfterRebuild(held)
    /\ UNCHANGED <<ret, result, calls, cleaner, http, db>>

\* Before anything is built or called
Unbuilt == SmartPredictor(BadFrame)
NoCall == [op |-> "none", months |-> None, before |-> Unbuilt]

----------------------------------------------------------------------------
(* The duration validator on its own: every generated series, every request *)

InitDuration ==
    /\ \E df \in DurationFrames : predictor = SmartPredictor(df)
    /\ call = [op |-> "SmartPredictor", months |-> None, before |-> Unbuilt]
    /\ ret = 0
    /\ result = BlankRecord
    /\ calls = 0
    /\ cleaner = NoCleaner
    /\ held = NoRecordHeld
    /\ http = NoExchange
    /\ db = EmptyDb

\* a freshly constructed predictor, one call
NextDuration ==
    \E user_months \in UserMonths :
        calls = 0 /\ CalculateAndValidateDuration(user_months)

SpecDuration == InitDuration /\ [][NextDuration]_vars

----------------------------------------------------------------------------
(* The environment: what the libraries do in one run *)

AdapterKeys ==
    {"sarima", "arima", "ar", "ma", "arma", "hw", "prophet", "cnn", "gru", "rnn", "exog", "var", "varma"}

\* Every adapter fits with score 2, except best, which scores 1
Favoring(best) == [a \in AdapterKeys |-> IF a = best THEN Num(1) ELSE Num(2)]
AllFail == [a \in AdapterKeys |-> FitError]


\* What the final SARIMAX fit returns on a series of n months
ResidualsOf(tag, n) ==
    [i \in 1..n |->
        CASE tag = "zero" -> 0
          [] tag = "spike" -> IF i = 1 THEN 10 ELSE 0
          [] OTHER -> IF i % 2 = 0 THEN 1 ELSE -1]

ResultsFor(tag, n) ==
    [ kind |-> IF tag = "error" THEN "error" ELSE "ok",
      aic |-> 150, mean |-> 5, width |-> 2,
      has_resid |-> tag # "noresid",
      resid |-> ResidualsOf(tag, n) ]

ResultTags == {"error", "noresid", "zero", "spike", "wave"}

\* results: what the final fit of get_prediction_data returns
Env(adf, decompose, tensorflow, libs, fit) ==
    [adf |-> adf, decompose |-> decompose, tensorflow |-> tensorflow,
     prophet |-> libs, var |-> libs, varmax |-> libs, fit |-> fit,
     results |-> ResultsFor("error", 0)]

SampleEnvs ==
    { Env("raise", "flat", FALSE, FALSE, Favoring("ar")),
      Env("stationary", "flat", FALSE, FALSE, Favoring("ar")),
      Env("stationary", "flat", FALSE, TRUE, Favoring("arma")),
      Env("stationary", "seasonal", TRUE, TRUE, Favoring("cnn")),
      Env("stationary", "raise", FALSE, TRUE, AllFail),
      Env("nonstationary", "seasonal", FALSE, TRUE, Favoring("exog")),
      Env("nonstationary", "flat", FALSE, TRUE, Favoring("hw")),
      Env("nonstationary", "seasonal", FALSE, FALSE, Favoring("sarima")) }

----------------------------------------------------------------------------
(* The whole core: the object API on sample series, and the boundary *)

SampleShapes ==
    { <<0, 0, FALSE>>, <<0, MaxGap, FALSE>>, <<2, MaxGap, FALSE>>, <<12, 0, FALSE>>,
      <<12, MaxGap, FALSE>>, <<30, 0, FALSE>>, <<12, 0, TRUE>>, <<1, 0, TRUE>> }

SampleSeries == { MakeSeries(sh[1], sh[2], 0, sh[3]) : sh \in SampleShapes }

SampleFrames == { MakeFrame(m) : m \in SampleSeries } \cup {BadFrame}

SampleMonths == { None, IntMonths(0), IntMonths(6), IntMonths(36), StrMonths(<<"a", "b", "c">>) }

\* A request and what the final fit does: every fit outcome without a
\* request, every request with a fit that fails and one that succeeds
SamplePredictions ==
    ({None} \X ResultTags) \cup (SampleMonths \X {"error", "wave"})

SampleFiles ==
    { File("empty", FALSE, FALSE, <<>>), File("too_big", FALSE, FALSE, <<>>),
      File("ok", FALSE, FALSE, <<>>), File("ok", TRUE, FALSE, <<>>) }
    \cup { File("ok", TRUE, TRUE, m) : m \in SampleSeries }

Init ==
    /\ predictor = Unbuilt
    /\ call = NoCall
    /\ ret = 0
    /\ result = BlankRecord
    /\ calls = 0
    /\ cleaner = NoCleaner
    /\ held = NoRecordHeld
    /\ http = NoExchange
    /\ db = EmptyDb

Next ==
    \/ \E df \in SampleFrames : NewPredictor(df)
    \/ \E user_months \in SampleMonths : CalculateAndValidateDuration(user_months)
    \/ \E env \in SampleEnvs : AnalyzeAndConfigure(env)
    \/ \E p \in SamplePredictions :
           GetPredictionData(p[1], ResultsFor(p[2], Len(predictor.df.montant)))
    \/ \E file_content \in SampleFiles, env \in SampleEnvs, p \in SamplePredictions :
           /\ call.op = "none"
           /\ PredictFromFileContent(file_content, p[1],
                  [env EXCEPT !.results = ResultsFor(p[2], Len(file_content.montant))])
           /\ UNCHANGED <<http, db>>

Spec == Init /\ [][Next]_vars

----------------------------------------------------------------------------
(* The tournament on its own: one analysis of a fresh predictor, then one   *)
(* prediction, over score tables and library combinations                   *)

TournamentLengths == {5, 12, 20, 30}

TournamentFrames == { MakeFrame(MakeSeries(n, 0, 0, FALSE)) : n \in TournamentLengths }

\* Adapters low and tie fit with the lowest score, every other one as in rest
Scores(low, tie, rest) == [a \in AdapterKeys |-> IF a \in {low, tie} THEN Num(-1) ELSE rest[a]]

Uniform(outcome) == [a \in AdapterKeys |-> outcome]

\* The first classical fits give NaN, one raises, everything else fits
Mixed ==
    [a \in AdapterKeys |->
        IF a \in {"sarima", "arima", "ar"} THEN NaN ELSE IF a = "ma" THEN FitError ELSE Num(2)]

RestOutcomes == {Uniform(Num(2)), Uniform(NaN), Uniform(FitError), Mixed}

AllNaN == [a \in AdapterKeys |-> NaN]

\* Which optional libraries import
Backends(env, tensorflow, prophet, var, varmax) ==
    [env EXCEPT !.tensorflow = tensorflow, !.prophet = prophet, !.var = var, !.varmax = varmax]

\* Every score table, with every library but TensorFlow installed
ScoreEnvs ==
    { Backends(Env(adf, decompose, FALSE, TRUE, Scores(low, tie, rest)), FALSE, TRUE, TRUE, TRUE) :
        adf \in {"stationary", "nonstationary"}, decompose \in {"flat", "seasonal"},
        low \in AdapterKeys, tie \in AdapterKeys, rest \in RestOutcomes }

\* Every combination of installed libraries and diagnostics, on a few tables
BackendEnvs ==
    { Backends(Env(adf, decompose, FALSE, FALSE, fit), tf, pr, va, vm) :
        adf \in {"stationary", "nonstationary", "raise"}, decompose \in {"flat", "seasonal", "raise"},
        tf \in BOOLEAN, pr \in BOOLEAN, va \in BOOLEAN, vm \in BOOLEAN,
        fit \in {AllFail, AllNaN, Favoring("hw"), Favoring("prophet"), Favoring("gru"), Favoring("varma")} }

TournamentEnvs == ScoreEnvs \cup BackendEnvs

TournamentResults == {"error", "wave"}

InitTournament ==
    /\ \E df \in TournamentFrames : predictor = SmartPredictor(df)
    /\ call = [op |-> "SmartPredictor", months |-> None, before |-> Unbuilt]
    /\ ret = 0
    /\ result = BlankRecord
    /\ calls = 0
    /\ cleaner = NoCleaner
    /\ held = NoRecordHeld
    /\ http = NoExchange
    /\ db = EmptyDb

NextTournament ==
    \/ \E env \in TournamentEnvs : calls = 0 /\ AnalyzeAndConfigure(env)
    \/ \E tag \in TournamentResults :
           /\ calls = 1
           /\ GetPredictionData(None, ResultsFor(tag, Len(predictor.df.montant)))

SpecTournament == InitTournament /\ [][NextTournament]_vars

----------------------------------------------------------------------------
(* The forecast on its own: one prediction of a fresh predictor, over       *)
(* requests, fit outcomes and residual vectors                              *)

ForecastLengths == {9, 19, 27, 30}

ForecastSeries ==
    { MakeSeries(n, 0, 0, FALSE) : n \in ForecastLengths }
    \cup { MakeSeries(12, 0, 0, TRUE), MakeSeries(1, 0, 0, TRUE), MakeSeries(2, 28, 0, FALSE) }

ForecastFrames == { MakeFrame(m) : m \in ForecastSeries }

ForecastMonths ==
    { None, IntMonths(-1), IntMonths(0), IntMonths(3), IntMonths(6), IntMonths(12),
      IntMonths(24), IntMonths(36) }

\* Residuals that are zero except in the first months
SpikeValues == {-6, -4, 0, 4, 5, 6}
SpikeTables == SpikeValues \X SpikeValues \X SpikeValues \X SpikeValues

ResidualsAt(n, spikes) == [i \in 1..n |-> IF i <= Len(spikes) THEN spikes[i] ELSE 0]

\* A fit that succeeded with the given residuals
ResultsWith(resid) == [ResultsFor("wave", 0) EXCEPT !.resid = resid]

InitForecast ==
    /\ \E df \in ForecastFrames : predictor = SmartPredictor(df)
    /\ call = [op |-> "SmartPredictor", months |-> None, before |-> Unbuilt]
    /\ ret = 0
    /\ result = BlankRecord
    /\ calls = 0
    /\ cleaner = NoCleaner
    /\ held = NoRecordHeld
    /\ http = NoExchange
    /\ db = EmptyDb

NextForecast ==
    \/ \E months \in ForecastMonths, tag \in ResultTags :
           /\ calls = 0
           /\ GetPredictionData(months, ResultsFor(tag, Len(predictor.df.montant)))
    \/ \E spikes \in SpikeTables :
           /\ calls = 0
           /\ GetPredictionData(None, ResultsWith(ResidualsAt(Len(predictor.df.montant), spikes)))

SpecForecast == InitForecast /\ [][NextForecast]_vars

----------------------------------------------------------------------------
(* Persistence: db_endpoints.py over the tables of models/database.py *)

\* select(User).where(User.api_key == api_key), .first(): the user_id, 0 for None
get_user_by_api_key(api_key, tables) ==
    LET found == {u \in DOMAIN tables.users : tables.users[u].api_key = api_key}
    IN  IF found = {} THEN 0 ELSE CHOOSE u \in found : \A v \in found : u <= v

\* What a caller sees of a persistence function: the exception or the id,
\* and the tables as committed
DbRaises(message, tables) == [raised |-> TRUE, message |-> message, db |-> tables, id |-> 0]
DbReturns(id, tables) == [raised |-> FALSE, message |-> "", db |-> tables, id |-> id]

\* db_up: the database answers the queries of this request
save_uploaded_file(api_key, row_count, tables, db_up) ==
    IF ~db_up THEN DbRaises("OperationalError", tables)
    ELSE LET user == get_user_by_api_key(api_key, tables)
         IN  IF user = 0 THEN DbRaises("Utilisateur non trouve", tables)
             ELSE DbReturns(Len(tables.uploaded_files) + 1,
                      [tables EXCEPT !.uploaded_files =
                          Append(@, [user_id |-> user, row_count |-> row_count])])

\* An element of anomalies_list: complete when it has the seven keys that
\* save_prediction reads
AnomalyData(severity, complete) == [severity |-> severity, complete |-> complete]

\* The dicts _detect_anomalies builds have the seven keys
EngineAnomalies(anomalies) ==
    [i \in DOMAIN anomalies |-> AnomalyData(anomalies[i].severity, TRUE)]

AnomalyRows(pred_id, anomalies_list) ==
    [i \in DOMAIN anomalies_list |-> [pred_id |-> pred_id, severity |-> anomalies_list[i].severity]]

\* The prediction is committed before the anomalies are read; the anomalies
\* are committed together after the loop
save_prediction(api_key, file_id, model_name, forecast_months, anomalies_list, tables, db_up) ==
    IF ~db_up THEN DbRaises("OperationalError", tables)
    ELSE LET user == get_user_by_api_key(api_key, tables)
         IN  IF user = 0 THEN DbRaises("Utilisateur non trouve", tables)
             ELSE LET pred_id == Len(tables.predictions) + 1
                      saved == [tables EXCEPT !.predictions =
                                   Append(@, [user_id |-> user, file_id |-> file_id,
                                              model_name |-> model_name,
                                              forecast_months |-> forecast_months])]
                  IN  IF \E i \in DOMAIN anomalies_list : ~anomalies_list[i].complete
                      THEN DbRaises("KeyError", saved)
                      ELSE DbReturns(pred_id,
                               [saved EXCEPT !.anomalies = @ \o AnomalyRows(pred_id, anomalies_list)])

\* secrets.token_hex(16): a token; a token already in use breaks the unique
\* constraint on users.api_key
register_user(token, tables) ==
    IF \E u \in DOMAIN tables.users : tables.users[u].api_key = token
    THEN DbRaises("IntegrityError", tables)
    ELSE DbReturns(Len(tables.users) + 1, [tables EXCEPT !.users = Append(@, [api_key |-> token])])

\* The ids of the rows of a table that satisfy a condition, in table order
RECURSIVE Matching(_, _)
Matching(n, keep) ==
    IF n = 0 THEN <<>>
    ELSE IF n \in keep THEN Append(Matching(n - 1, keep), n) ELSE Matching(n - 1, keep)

Listing(user, ids) == [status |-> 200, user_id |-> user, rows |-> ids]
NotFound == [status |-> 404, user_id |-> 0, rows |-> <<>>]

list_user_files(api_key, tables) ==
    LET user == get_user_by_api_key(api_key, tables)
    IN  IF user = 0 THEN NotFound
        ELSE Listing(user, Matching(Len(tables.uploaded_files),
                 {f \in DOMAIN tables.uploaded_files : tables.uploaded_files[f].user_id = user}))

list_predictions(api_key, tables) ==
    LET user == get_user_by_api_key(api_key, tables)
    IN  IF user = 0 THEN NotFound
        ELSE Listing(user, Matching(Len(tables.predictions),
                 {p \in DOMAIN tables.predictions : tables.predictions[p].user_id = user}))

\* where (Prediction.pred_id == pred_id) & (Prediction.user_id == user.user_id)
OwnPrediction_AnyUser(pred_id, user, tables) == pred_id \in DOMAIN tables.predictions

OwnPrediction(pred_id, user, tables) ==
    pred_id \in DOMAIN tables.predictions /\ tables.predictions[pred_id].user_id = user

\* rows: the anomalies of the prediction
get_prediction_detail(pred_id, api_key, tables) ==
    LET user == get_user_by_api_key(api_key, tables)
    IN  IF user = 0 THEN NotFound
        ELSE IF ~OwnPrediction(pred_id, user, tables) THEN NotFound
        ELSE Listing(user, Matching(Len(tables.anomalies),
                 {a \in DOMAIN tables.anomalies : tables.anomalies[a].pred_id = pred_id}))

\* select(Anomaly).join(Prediction).where(Prediction.user_id == user.user_id),
\* then the severity filter when one is given ("" for None)
list_anomalies(api_key, severity, tables) ==
    LET user == get_user_by_api_key(api_key, tables)
    IN  IF user = 0 THEN NotFound
        ELSE Listing(user, Matching(Len(tables.anomalies),
                 {a \in DOMAIN tables.anomalies :
                     /\ OwnPrediction(tables.anomalies[a].pred_id, user, tables)
                     /\ (severity # "" => tables.anomalies[a].severity = severity)}))

----------------------------------------------------------------------------
(* The service: main.py *)

API_KEY_SECRET == "TGR-SECRET-KEY-12345"

\* The dependency verify_api_key: the status it raises, 200 when it returns
verify_api_key_Open(x_api_key) == 200

verify_api_key(x_api_key) ==
    IF ~x_api_key.present \/ x_api_key.value = "" THEN 401
    ELSE IF x_api_key.value # API_KEY_SECRET THEN 401
    ELSE 200

\* months: Optional[int] = Query(None, ge=1, le=60)
QueryAccepted(months) ==
    months.kind = "none" \/ (months.kind = "int" /\ months.val >= 1 /\ months.val <= 60)

\* The try block that persists a success record: what it called, what it
\* left in the tables, and whether an exception ended it
PersistRaises(saves, tables) == [raised |-> TRUE, saves |-> saves, db |-> tables, file_id |-> 0, pred_id |-> 0]

Persist(api_key, record, tables, db_up) ==
    IF record.history.dates = <<>>
    THEN \* result["history"]["dates"][0] of an empty list
         PersistRaises(<<>>, tables)
    ELSE LET f == save_uploaded_file(api_key, Len(record.history.values), tables, db_up)
         IN  IF f.raised THEN PersistRaises(<<"save_uploaded_file">>, f.db)
             ELSE LET p == save_prediction(api_key, f.id, record.model_info.name,
                               record.duration_info.validated_months,
                               EngineAnomalies(record.anomalies), f.db, db_up)
                  IN  IF p.raised THEN PersistRaises(<<"save_uploaded_file", "save_prediction">>, p.db)
                      ELSE [raised |-> FALSE, saves |-> <<"save_uploaded_file", "save_prediction">>,
                            db |-> p.db, file_id |-> f.id, pred_id |-> p.id]

Response(status, body, record, internal, saves, tables) ==
    [status |-> status, body |-> body, record |-> record, internal |-> internal,
     saves |-> saves, db |-> tables]

\* return JSONResponse(status_code=400, content=result)
EngineError_Accepted(record, tables) == Response(200, "record", record, NoInternal, <<>>, tables)

EngineError(record, tables) == Response(400, "record", record, NoInternal, <<>>, tables)

\* the outer except Exception of a route
RouteFails(tables) == Response(400, "details", BlankRecord, NoInternal, <<>>, tables)

\* result["_internal"] of /predict
Internal_AlwaysPersisted(p) ==
    [present |-> TRUE, persisted |-> TRUE, file_id |-> p.file_id, pred_id |-> p.pred_id]

Internal(p) ==
    IF p.raised THEN [present |-> TRUE, persisted |-> FALSE, file_id |-> 0, pred_id |-> 0]
    ELSE [present |-> TRUE, persisted |-> TRUE, file_id |-> p.file_id, pred_id |-> p.pred_id]

\* The body of /predict after the engine returned record
predict_upload(api_key, record, tables, db_up) ==
    IF record.status = "exception" THEN RouteFails(tables)
    ELSE IF record.status # "success" THEN EngineError(record, tables)
    ELSE LET p == Persist(api_key, record, tables, db_up)
         IN  Response(200, "record", record, Internal(p), p.saves, p.db)

\* The body of /predict/auto after the engine returned record
predict_auto(api_key, record, tables, db_up) ==
    IF record.status = "exception" THEN RouteFails(tables)
    ELSE IF record.status # "success" THEN EngineError(record, tables)
    ELSE LET p == Persist(api_key, record, tables, db_up)
         IN  Response(200, "record", record, NoInternal, p.saves, p.db)

\* df_export['montant'].nunique() <= 1 or len(df_export) < 6
NAIVE_MIN_ROWS == 6
NAIVE_DEFAULT_MONTHS == 6

TooShortOrConstant(rows) == NUnique(rows) <= 1 \/ Len(rows) < NAIVE_MIN_ROWS

\* df_filtered_bytes, as DataCleaner finds it
ExportedFile(f) == File("ok", TRUE, TRUE, f.rows)

\* validated_months = months or 6
FallbackMonths(rows, months) ==
    IF months.kind = "none" \/ months.val = 0 THEN NAIVE_DEFAULT_MONTHS ELSE months.val

\* The naive record of the route
FallbackRecord(rows, months) ==
    LET validated_months == FallbackMonths(rows, months)
        last_value == IF rows = <<>> THEN 0 ELSE rows[Len(rows)]
        last_date == Len(rows)
    IN  [BlankRecord EXCEPT
            !.keys = {"status", "model_info", "explanations", "history", "forecast",
                      "anomalies", "timestamp", "duration_info"},
            !.status = "success",
            !.model_info = [name |-> "NAIVE_CONSTANT", order |-> <<>>, seasonal_order |-> <<>>, aic |-> Num(0)],
            !.explanations = OwnList(<<"Fallback: serie trop courte, constante ou SARIMA echoue, prevision naive utilisee">>),
            !.history = [dates |-> [i \in DOMAIN rows |-> i], values |-> rows],
            !.forecast = [dates |-> [i \in 1..validated_months |-> last_date + i],
                          values |-> Repeat(last_value, validated_months),
                          confidence_upper |-> Repeat(last_value, validated_months),
                          confidence_lower |-> Repeat(last_value, validated_months)],
            !.duration_info = [requested_months |-> months, validated_months |-> validated_months,
                               reason |-> [text |-> "FALLBACK - naive or SARIMA failure",
                                           requested |-> months, safe |-> validated_months]]]

\* The body of /predict/by-code once the series of the code is exported;
\* record is what the engine returned when it was called
predict_by_ordinateur(api_key, f, months, record, tables, db_up) ==
    IF ~f.code_column THEN Response(400, "no code column", BlankRecord, NoInternal, <<>>, tables)
    ELSE IF ~f.code_found THEN Response(404, "code not found", BlankRecord, NoInternal, <<>>, tables)
    ELSE LET use_naive == TooShortOrConstant(f.rows) \/ record.status # "success"
             answer == IF use_naive THEN FallbackRecord(f.rows, months) ELSE record
             p == Persist(api_key, answer, tables, db_up)
         IN  Response(200, "record", answer, NoInternal, p.saves, p.db)

----------------------------------------------------------------------------
(* One request to the service *)

Exchange(endpoint, key, request, engine, r) ==
    [ endpoint |-> endpoint, key |-> key, request |-> request, status |-> r.status, body |-> r.body,
      record |-> r.record, internal |-> r.internal, engine |-> engine, saves |-> r.saves,
      rows |-> <<>>, before |-> db ]

\* HTTPException(status_code=401, ...) raised by the dependency, and the
\* 422 of a query parameter out of range: the route does not run
Refused(status) == Response(status, "detail", BlankRecord, NoInternal, <<>>, db)

EngineIdle == UNCHANGED <<predictor, ret, result, cleaner, held, call>>

\* What stands before the body of a protected route
Gate(x_api_key, months) ==
    IF verify_api_key(x_api_key) # 200 THEN 401
    ELSE IF ~QueryAccepted(months) THEN 422
    ELSE 200

\* POST /predict
PredictUpload(x_api_key, file_content, months, env, db_up) ==
    /\ calls < MaxCalls
    /\ calls' = calls + 1
    /\ LET request == Request(months, NoCodeFile, db_up)
           gate == Gate(x_api_key, months)
       IN  IF gate # 200
           THEN /\ http' = Exchange("/predict", x_api_key, request, FALSE, Refused(gate))
                /\ EngineIdle
                /\ UNCHANGED db
           ELSE /\ PredictFromFileContent(file_content, months, env)
                /\ LET r == predict_upload(x_api_key.value, result', db, db_up)
                   IN  /\ http' = Exchange("/predict", x_api_key, request, TRUE, r)
                       /\ db' = r.db

\* POST /predict/auto
PredictAuto(x_api_key, file_content, env, db_up) ==
    /\ calls < MaxCalls
    /\ calls' = calls + 1
    /\ LET request == Request(None, NoCodeFile, db_up)
           gate == Gate(x_api_key, None)
       IN  IF gate # 200
           THEN /\ http' = Exchange("/predict/auto", x_api_key, request, FALSE, Refused(gate))
                /\ EngineIdle
                /\ UNCHANGED db
           ELSE /\ PredictFromFileContent(file_content, None, env)
                /\ LET r == predict_auto(x_api_key.value, result', db, db_up)
                   IN  /\ http' = Exchange("/predict/auto", x_api_key, request, TRUE, r)
                       /\ db' = r.db

\* POST /predict/by-code
PredictByCode(x_api_key, f, months, env, db_up) ==
    /\ calls < MaxCalls
    /\ calls' = calls + 1
    /\ LET request == Request(months, f, db_up)
           gate == Gate(x_api_key, months)
           engine == f.code_column /\ f.code_found /\ ~TooShortOrConstant(f.rows)
       IN  IF gate # 200
           THEN /\ http' = Exchange("/predict/by-code", x_api_key, request, FALSE, Refused(gate))
                /\ EngineIdle
                /\ UNCHANGED db
           ELSE /\ IF engine THEN PredictFromFileContent(ExportedFile(f), months, env) ELSE EngineIdle
                /\ LET r == predict_by_ordinateur(x_api_key.value, f, months, result', db, db_up)
                   IN  /\ http' = Exchange("/predict/by-code", x_api_key, request, engine, r)
                       /\ db' = r.db

\* GET /health and GET /info: no dependency
Public(endpoint) ==
    /\ calls < MaxCalls
    /\ calls' = calls + 1
    /\ \E x_api_key \in {NoHeader, Header(API_KEY_SECRET)} :
           http' = Exchange(endpoint, x_api_key, Request(None, NoCodeFile, TRUE), FALSE,
                            Response(200, endpoint, BlankRecord, NoInternal, <<>>, db))
    /\ EngineIdle
    /\ UNCHANGED db

HealthCheck == Public("/health")
ApiInfo == Public("/info")

----------------------------------------------------------------------------
(* Calls of the persistence functions and of the persistence endpoints *)

\* What a call of a persistence function or endpoint leaves in http
DbExchange(endpoint, api_key, request, status, body, id, rows) ==
    [ endpoint |-> endpoint, key |-> Header(api_key), request |-> request, status |-> status,
      body |-> body, record |-> BlankRecord,
      internal |-> [NoInternal EXCEPT !.file_id = id, !.pred_id = id],
      engine |-> FALSE, saves |-> <<>>, rows |-> rows, before |-> db ]

Query(pred_id, severity) ==
    [Request(None, NoCodeFile, TRUE) EXCEPT !.pred_id = pred_id, !.severity = severity]

Written(r) == IF r.raised THEN r.message ELSE "returned"

\* POST /api/db/users/register; token is what secrets.token_hex gives
RegisterUser(token) ==
    /\ calls < MaxCalls
    /\ calls' = calls + 1
    /\ LET r == register_user(token, db)
       IN  /\ db' = r.db
           /\ http' = DbExchange("register_user", token, Query(0, ""),
                                 IF r.raised THEN 400 ELSE 200, Written(r), r.id, <<>>)
    /\ EngineIdle

\* save_uploaded_file(api_key, ...)
SaveUploadedFile(api_key, row_count, db_up) ==
    /\ calls < MaxCalls
    /\ calls' = calls + 1
    /\ LET r == save_uploaded_file(api_key, row_count, db, db_up)
       IN  /\ db' = r.db
           /\ http' = DbExchange("save_uploaded_file", api_key, Query(0, ""), 0, Written(r), r.id, <<>>)
    /\ EngineIdle

\* save_prediction(api_key, file_id, ..., anomalies_list)
SavePrediction(api_key, file_id, anomalies_list, db_up) ==
    /\ calls < MaxCalls
    /\ calls' = calls + 1
    /\ LET r == save_prediction(api_key, file_id, "ARIMA", DEFAULT_MONTHS, anomalies_list, db, db_up)
       IN  /\ db' = r.db
           /\ http' = DbExchange("save_prediction", api_key, Query(0, ""), 0, Written(r), r.id, <<>>)
    /\ EngineIdle

\* A GET of /api/db: r is what the endpoint answers
Answer(endpoint, api_key, request, r) ==
    /\ http' = DbExchange(endpoint, api_key, request, r.status,
                          IF r.status = 200 THEN "listing" ELSE "detail", r.user_id, r.rows)
    /\ EngineIdle
    /\ UNCHANGED <<db, calls>>

ListUserFiles(api_key) ==
    Answer("list_user_files", api_key, Query(0, ""), list_user_files(api_key, db))

ListPredictions(api_key) ==
    Answer("list_predictions", api_key, Query(0, ""), list_predictions(api_key, db))

GetPredictionDetail(pred_id, api_key) ==
    Answer("get_prediction_detail", api_key, Query(pred_id, ""), get_prediction_detail(pred_id, api_key, db))

ListAnomalies(api_key, severity) ==
    Answer("list_anomalies", api_key, Query(0, severity), list_anomalies(api_key, severity, db))

----------------------------------------------------------------------------
(* The service on its own: one request, on a database with or without a   *)
(* user for the configured key                                            *)

ServiceKeys == {NoHeader, Header(""), Header("WRONG-KEY-12345"), Header(API_KEY_SECRET)}

SingleRow == MakeSeries(1, 0, 0, TRUE)

ServiceSeries ==
    { SingleRow, MakeSeries(3, 0, 0, FALSE), MakeSeries(12, 0, 0, TRUE),
      MakeSeries(12, 0, 0, FALSE), MakeSeries(2, MaxGap, 0, FALSE) }

ServiceFiles ==
    { File("empty", FALSE, FALSE, <<>>), File("too_big", FALSE, FALSE, <<>>),
      File("ok", TRUE, FALSE, <<>>) }
    \cup { File("ok", TRUE, TRUE, m) : m \in ServiceSeries }

CodeFiles ==
    { CodeFile(FALSE, FALSE, <<>>), CodeFile(TRUE, FALSE, <<>>), CodeFile(TRUE, TRUE, <<>>) }
    \cup { CodeFile(TRUE, TRUE, m) : m \in ServiceSeries }

ServiceMonths == { None, IntMonths(0), IntMonths(1), IntMonths(6), IntMonths(60) }

ServiceEnvs ==
    { Env("raise", "flat", FALSE, FALSE, Favoring("ar")),
      Env("stationary", "flat", FALSE, TRUE, Favoring("arma")),
      Env("nonstationary", "seasonal", FALSE, TRUE, Favoring("sarima")) }

ServiceFits == {"error", "wave", "spike"}

\* A user whose key is the configured key: the operator's row
SeededDb == register_user(API_KEY_SECRET, EmptyDb).db

ServiceDbs == {EmptyDb, SeededDb}

InitService ==
    /\ predictor = Unbuilt
    /\ call = NoCall
    /\ ret = 0
    /\ result = BlankRecord
    /\ calls = 0
    /\ cleaner = NoCleaner
    /\ held = NoRecordHeld
    /\ http = NoExchange
    /\ db \in ServiceDbs

NextService ==
    \/ \E k \in ServiceKeys, fc \in ServiceFiles, m \in ServiceMonths, env \in ServiceEnvs,
          fit \in ServiceFits, db_up \in BOOLEAN :
           /\ calls = 0
           /\ PredictUpload(k, fc, m, [env EXCEPT !.results = ResultsFor(fit, Len(fc.montant))], db_up)
    \/ \E k \in ServiceKeys, fc \in ServiceFiles, env \in ServiceEnvs,
          fit \in ServiceFits, db_up \in BOOLEAN :
           /\ calls = 0
           /\ PredictAuto(k, fc, [env EXCEPT !.results = ResultsFor(fit, Len(fc.montant))], db_up)
    \/ \E k \in ServiceKeys, f \in CodeFiles, m \in ServiceMonths, env \in ServiceEnvs,
          fit \in ServiceFits, db_up \in BOOLEAN :
           /\ calls = 0
           /\ PredictByCode(k, f, m, [env EXCEPT !.results = ResultsFor(fit, Len(f.rows))], db_up)
    \/ calls = 0 /\ HealthCheck
    \/ calls = 0 /\ ApiInfo

SpecService == InitService /\ [][NextService]_vars

----------------------------------------------------------------------------
(* Persistence on its own: two writes and any reads, on a database that   *)
(* earlier calls have filled                                              *)

Tokens == {"tgr-a", "tgr-b", "tgr-c"}

TwoUsers == register_user("tgr-b", register_user("tgr-a", EmptyDb).db).db

WithPrediction ==
    save_prediction("tgr-a", 1, "ARIMA", DEFAULT_MONTHS, <<AnomalyData("HIGH", TRUE)>>,
                    save_uploaded_file("tgr-a", 12, TwoUsers, TRUE).db, TRUE).db

PersistenceDbs == {EmptyDb, TwoUsers, WithPrediction}

AnomalyLists ==
    { <<>>, <<AnomalyData("HIGH", TRUE), AnomalyData("MEDIUM", TRUE)>>,
      <<AnomalyData("MEDIUM", TRUE), AnomalyData("HIGH", FALSE)>> }

PredIds == 1..3

InitPersistence ==
    /\ predictor = Unbuilt
    /\ call = NoCall
    /\ ret = 0
    /\ result = BlankRecord
    /\ calls = 0
    /\ cleaner = NoCleaner
    /\ held = NoRecordHeld
    /\ http = NoExchange
    /\ db \in PersistenceDbs

NextPersistence ==
    \/ \E token \in Tokens : calls <= 1 /\ RegisterUser(token)
    \/ \E api_key \in Tokens, db_up \in BOOLEAN : calls <= 1 /\ SaveUploadedFile(api_key, 12, db_up)
    \/ \E api_key \in Tokens, file_id \in {1}, anomalies_list \in AnomalyLists, db_up \in BOOLEAN :
           calls <= 1 /\ SavePrediction(api_key, file_id, anomalies_list, db_up)
    \/ \E api_key \in Tokens : ListUserFiles(api_key)
    \/ \E api_key \in Tokens : ListPredictions(api_key)
    \/ \E api_key \in Tokens, pred_id \in PredIds : GetPredictionDetail(pred_id, api_key)
    \/ \E api_key \in Tokens, severity \in {"", "HIGH"} : ListAnomalies(api_key, severity)

SpecPersistence == InitPersistence /\ [][NextPersistence]_vars

----------------------------------------------------------------------------
(* Properties of the duration validator.  They read the call from `call`    *)
(* (the predictor before it, the request) and its outcome from ret and      *)
(* `predictor`, and restate the arithmetic of the specification.            *)

DurationCall == call.op = "calculate_and_validate_duration"

\* On a frame that has its amounts
DurationCallOnSeries == DurationCall /\ call.before.df.has_montant

\* The series the call worked on: the predictor's, or the one cleaned from
\* the file for predict_from_file_content
SeriesOfCall ==
    IF call.op = "predict_from_file_content"
    THEN call.file_content.montant
    ELSE call.before.df.montant
TotalOfCall == Len(SeriesOfCall)
ActiveOfCall == Cardinality({i \in 1..TotalOfCall : SeriesOfCall[i] > 0})
RawSafeOfCall == ActiveOfCall \div 3
SafeOfCall == IF RawSafeOfCall < 3 THEN 3 ELSE IF RawSafeOfCall > 24 THEN 24 ELSE RawSafeOfCall
SparseOfCall == TotalOfCall = 0 \/ 5 * ActiveOfCall < TotalOfCall

RequestAbsent == call.months.kind = "none"
RequestIsInt == call.months.kind = "int"
RequestUnparseable ==
    /\ call.months.kind = "str"
    /\ \/ call.months.text = <<>>
       \/ \E i \in DOMAIN call.months.text : call.months.text[i] \notin Digits
Requested == call.months.val

OverrideBranch ==
    RequestIsInt /\ Requested > SafeOfCall /\ Requested <= 24 /\ Requested <= TotalOfCall
WithinSafeBranch == RequestIsInt /\ Requested <= SafeOfCall

\* The lines the last call appended to self.logs
NewLogLines == SubSeq(predictor.logs, Len(call.before.logs) + 1, Len(predictor.logs))
Logged(line) == \E i \in DOMAIN NewLogLines : NewLogLines[i] = line

\* C1 (as stated): the months returned lie in [3, 24] unless the request
\* takes the override-accepted branch, where the result is the request.
\* Stated here for the requests the API lets through (1 and above) only.
C1_Original ==
    (DurationCallOnSeries /\ (RequestAbsent \/ (RequestIsInt /\ Requested >= 1) \/ RequestUnparseable))
        => IF OverrideBranch THEN ret = Requested ELSE ret \in 3..24

\* C1 (amended): the months returned lie in [3, 24] unless the request is an
\* integer not above the safe duration or takes the override-accepted
\* branch; in both cases the result is the request.
C1_DurationBounds ==
    (DurationCall /\ (RequestAbsent \/ RequestIsInt \/ RequestUnparseable))
        => IF call.before.df.has_montant /\ (WithinSafeBranch \/ OverrideBranch)
           THEN ret = Requested
           ELSE ret \in 3..24

C1_Witness ==
    DurationCallOnSeries /\ OverrideBranch /\ ret = Requested /\ ret > SafeOfCall

\* C2: the months returned are never zero or negative, for any series and
\* any integer request.
C2_NeverZeroOrNegative ==
    (DurationCall /\ (RequestAbsent \/ RequestIsInt)) => ret > 0

C4_AutoDuration ==
    (DurationCallOnSeries /\ RequestAbsent)
        => /\ ret = SafeOfCall
           /\ (ActiveOfCall = 12 => ret = 4)
           /\ (ActiveOfCall <= 2 => ret = 3)
           /\ (ActiveOfCall = 200 => ret = 24)

\* an all-zero series, with no request, gets the minimum
C4_Witness ==
    /\ DurationCallOnSeries /\ RequestAbsent
    /\ TotalOfCall > 0 /\ \A i \in 1..TotalOfCall : SeriesOfCall[i] = 0
    /\ ret = 3

\* C6: an unparseable request is recovered: the safe value is returned, the
\* rationale is the invalid-request one (which no other branch records) and
\* a log line is appended.
C6_InvalidRequestRecovered ==
    DurationCallOnSeries
        => /\ RequestUnparseable <=> predictor.reason.text = "INVALID USER REQUEST (%s)"
           /\ RequestUnparseable =>
                /\ ret = SafeOfCall
                /\ predictor.has_reason
                /\ Logged("Valeur months non numerique : rejetee")

C6_Witness ==
    /\ DurationCallOnSeries /\ RequestUnparseable /\ call.months.text # <<>>
    /\ ret = SafeOfCall /\ Logged("Valeur months non numerique : rejetee")

----------------------------------------------------------------------------
(* Properties of get_prediction_data and of predict_from_file_content.     *)

PredictionCall == call.op = "get_prediction_data"
BoundaryCall == call.op = "predict_from_file_content"

\* get_prediction_data on a frame that has its amounts
PredictionCallOnSeries == PredictionCall /\ call.before.df.has_montant

\* The calls in which the duration validator ran on a series
DurationDecided ==
    \/ DurationCallOnSeries
    \/ PredictionCallOnSeries
    \/ BoundaryCall /\ call.stage = "prediction"

\* The calls that returned a record with duration_info
ReturnedDuration ==
    /\ PredictionCallOnSeries \/ (BoundaryCall /\ call.stage = "prediction")
    /\ result.status = "success"

MentionsSparsity(reason) == reason.text = "MODE AUTO - sparsity detected"

\* C5 (as stated): on a series of density below 20% the decision logs the
\* sparsity warning whichever branch is taken, and in auto mode the record
\* returned has a reason that mentions sparsity and validated_months = 3.
C5_Original ==
    /\ (DurationDecided /\ SparseOfCall) => Logged(SPARSE_WARNING)
    /\ (ReturnedDuration /\ SparseOfCall /\ RequestAbsent)
            => /\ MentionsSparsity(result.duration_info.reason)
               /\ result.duration_info.validated_months = 3

\* C5 (amended): on a series of density below 20% the decision logs the
\* sparsity warning whichever branch is taken, and in auto mode the record
\* returned has a reason that mentions sparsity and validated_months equal
\* to max(3, min(24, floor(active / 3))), which is 3 below 12 active months.
C5_SparsityWarning ==
    /\ (DurationDecided /\ SparseOfCall) => Logged(SPARSE_WARNING)
    /\ (ReturnedDuration /\ SparseOfCall /\ RequestAbsent)
            => /\ MentionsSparsity(result.duration_info.reason)
               /\ result.duration_info.validated_months = SafeOfCall
               /\ (ActiveOfCall < 12 => result.duration_info.validated_months = 3)

\* 12 active months out of 12 + MaxGap, no request: warned, and 4 months
C5_Witness ==
    /\ PredictionCallOnSeries /\ RequestAbsent /\ SparseOfCall
    /\ TotalOfCall > 0 /\ ActiveOfCall = 12
    /\ result.status = "success"
    /\ MentionsSparsity(result.duration_info.reason)
    /\ result.duration_info.validated_months = 4
    /\ Logged(SPARSE_WARNING)

\* The final fit or the forecast of get_prediction_data fails: the series
\* is not constant and either fit() raises or the horizon is below 1
FitOrForecastFails ==
    /\ PredictionCallOnSeries
    /\ NUnique(SeriesOfCall) > 1
    /\ \/ call.results.kind = "error"
       \/ RequestIsInt /\ Requested < 1

IsErrorRecord(r) ==
    /\ r.status = "error"
    /\ r.keys = {"status", "error_message", "explanations"}
    /\ r.error_message # ""

\* C7: predict_from_file_content returns a record of status success or
\* error for every file and every months value, and get_prediction_data
\* returns an error record (status, error_message, explanations) when the
\* fit or the forecast fails; neither lets an exception out.
C7_NeverRaises ==
    /\ BoundaryCall => (result.status \in {"success", "error"} /\ "status" \in result.keys)
    /\ PredictionCall => (result.status \in {"success", "error"} /\ "status" \in result.keys)
    /\ FitOrForecastFails => IsErrorRecord(result)

\* the tournament raised inside predict_from_file_content: an error record
C7_Witness ==
    /\ BoundaryCall /\ call.stage = "analysis"
    /\ IsErrorRecord(result)

\* The lines logged by the except handlers themselves
HandlerLines ==
    {"ERREUR lors du nettoyage", "ERREUR lors de l'analyse", "ERREUR lors de la prediction"}

\* Everything the cleaner and the predictor of the invocation logged
AllLogged == cleaner.logs \o predictor.logs

\* What had been logged when the failure happened
LoggedBeforeFailure == SelectSeq(AllLogged, LAMBDA line : line \notin HandlerLines)

\* C8: an error record of predict_from_file_content carries in explanations
\* the lines logged before the failure, and a non-empty error_message.
C8_ErrorCarriesLogs ==
    (BoundaryCall /\ result.status = "error")
        => /\ result.error_message # ""
           /\ SelectSeq(result.explanations.items, LAMBDA line : line \notin HandlerLines)
                  = LoggedBeforeFailure

\* The first line of each stage
StageMarkers ==
    {"Chargement du fichier CSV...",
     "SELECTION AUTOMATIQUE & INTELLIGENTE DE MODELE",
     "ETAPE 2 : EVALUATION DE TOUS LES MODELES",
     "ANALYSE DE LA DENSITE DES DONNEES (Smart Duration)",
     SPARSE_WARNING,
     "SECURITE STATISTIQUE  Duree reduite",
     "=== GENERATION DE PREVISIONS ===",
     "DETECTION D'ANOMALIES (AI for Audit)"}

StagesOf(lines) == SelectSeq(lines, LAMBDA line : line \in StageMarkers)

\* C9: the explanations of a record returned by predict_from_file_content
\* hold, in order, a line of every stage that ran: cleaning, diagnostics
\* and tournament, duration validation (with its sparsity warning or its
\* reduction), forecasting, anomaly detection.
C9_ExplanationsCoverStages ==
    (BoundaryCall /\ result.status = "success")
        => StagesOf(result.explanations.items) = StagesOf(AllLogged)

\* C10: a success record holds model_info, duration_info, history,
\* forecast, anomalies and explanations, and duration_info.requested_months
\* is the caller's request.
C10_SuccessRecordComplete ==
    ((PredictionCall \/ BoundaryCall) /\ result.status = "success")
        => /\ {"model_info", "duration_info", "history", "forecast", "anomalies", "explanations"}
                  \subseteq result.keys
           /\ result.duration_info.requested_months = call.months

----------------------------------------------------------------------------
(* Properties of the tournament.  They read the score table of the call     *)
(* from `call`, the configuration it left from `predictor`.                 *)

AnalysisCall == call.op = "analyze_and_configure"

\* The analysis returned without raising
AnalysisCompleted == AnalysisCall /\ result = BlankRecord

Registered == call.model_scores

Ranking == SortModels(Registered)

\* best_model_name, best_score of the call
Winner == BestOf(Ranking)

Fitted(entry) == entry.score.kind = "num"

\* Position of a candidate in registration order
RegisteredAt(name) == CHOOSE i \in DOMAIN Registered : Registered[i].name = name

\* C11: the winner of the tournament has the lowest score among the
\* candidates with a finite score; in the ranking no candidate scored +inf
\* or NaN comes before a finite one and nobody is lost; of the candidates
\* with the winning score the winner is the one registered first.
C11_LowestScoreWins ==
    AnalysisCompleted =>
        /\ Len(Ranking) = Len(Registered)
        /\ \A e \in DOMAIN Registered : \E i \in DOMAIN Ranking : Ranking[i] = Registered[e]
        /\ \A i, j \in DOMAIN Ranking : (i < j /\ Fitted(Ranking[j])) => Fitted(Ranking[i])
        /\ \A e \in DOMAIN Registered :
               Fitted(Registered[e]) =>
                   /\ Fitted(Winner)
                   /\ Winner.score.val <= Registered[e].score.val
                   /\ Winner.score.val = Registered[e].score.val => RegisteredAt(Winner.name) <= e

\* Two fitted candidates share the lowest score next to a worse fitted one,
\* one that scored NaN or +inf is registered before them
C11_Witness ==
    /\ AnalysisCompleted
    /\ \E i, j, k, l \in DOMAIN Registered :
           /\ l < i /\ i < j
           /\ ~Fitted(Registered[l])
           /\ Fitted(Registered[i]) /\ Fitted(Registered[j]) /\ Fitted(Registered[k])
           /\ Registered[i].score = Registered[j].score
           /\ Registered[k].score.val > Registered[i].score.val
           /\ Winner = Registered[i]

\* Every fit of the tournament of a boundary call raises, on a file whose
\* series is not empty
EveryAdapterFails ==
    /\ BoundaryCall
    /\ call.file_content.size = "ok" /\ call.file_content.readable /\ call.file_content.columns
    /\ call.file_content.montant # <<>>
    /\ call.env.adf # "raise"
    /\ ~call.env.tensorflow
    /\ \A a \in AdapterKeys : call.env.fit[a].kind = "error"

\* C12: when every adapter fails on a series that is not empty, the record
\* returned has status success and carries the naive forecast of the
\* designated fallback candidate.
C12_NaiveFallback ==
    EveryAdapterFails =>
        /\ result.status = "success"
        /\ result.model_info.name = "NAIVE_CONSTANT"
        /\ \A i \in DOMAIN result.forecast.values :
               result.forecast.values[i] = SeriesOfCall[Len(SeriesOfCall)]

\* The configuration that identifies each candidate of the tournament: its
\* family as model_name and, for the ARIMA family, its own orders
Identity(name, order, seasonal_order) ==
    [model_name |-> name, order |-> order, seasonal_order |-> seasonal_order]

ConfigurationOf(candidate) ==
    CASE candidate = N_SARIMA -> Identity("SARIMA", <<1, 0, 1>>, <<1, 1, 1, 12>>)
      [] candidate = N_ARIMA -> Identity("ARIMA", <<1, 1, 1>>, NoSeason)
      [] candidate = N_AR -> Identity("AR", <<1, 0, 0>>, NoSeason)
      [] candidate = N_MA -> Identity("MA", <<0, 0, 1>>, NoSeason)
      [] candidate = N_ARMA -> Identity("ARMA", <<1, 0, 1>>, NoSeason)
      [] candidate = N_HoltWinters -> Identity("HoltWinters", <<0, 0, 0>>, NoSeason)
      [] candidate = N_Prophet -> Identity("Prophet", <<0, 0, 0>>, NoSeason)
      [] candidate = N_LSTM -> Identity("LSTM", <<0, 0, 0>>, NoSeason)
      [] candidate = N_CNN -> Identity("CNN", <<0, 0, 0>>, NoSeason)
      [] candidate = N_GRU -> Identity("GRU", <<0, 0, 0>>, NoSeason)
      [] candidate = N_RNN -> Identity("RNN", <<0, 0, 0>>, NoSeason)
      [] candidate = N_SARIMAX_EXOG -> Identity("SARIMAX_EXOG", <<1, 0, 1>>, NoSeason)
      [] candidate = N_VAR -> Identity("VAR", <<0, 0, 0>>, NoSeason)
      [] candidate = N_VARMA -> Identity("VARMA", <<0, 0, 0>>, NoSeason)
      [] OTHER -> Identity("SARIMAX_DEFAULT", <<1, 0, 1>>, <<1, 1, 1, 12>>)

Configured == Identity(predictor.model_name, predictor.order, predictor.seasonal_order)

\* C13: the configuration an analysis leaves for the final fit names the
\* winner of the tournament: model_name is the winner's family and, for a
\* winner of the ARIMA family, order and seasonal_order are the winner's.
C13_ConfiguredIsWinner ==
    AnalysisCompleted =>
        /\ Configured.model_name = ConfigurationOf(Winner.name).model_name
        /\ Winner.name \in {N_SARIMA, N_ARIMA, N_AR, N_MA, N_ARMA}
               => Configured = ConfigurationOf(Winner.name)

ValidModels == {"AR", "MA", "ARMA", "ARIMA", "SARIMA"}

\* C14: after an analysis that returned without raising, model_name is one
\* of AR, MA, ARMA, ARIMA, SARIMA and order is not (0, 0, 0), whichever
\* candidate won.
C14_ValidModelConfigured ==
    AnalysisCompleted =>
        /\ predictor.model_name \in ValidModels
        /\ predictor.order # <<0, 0, 0>>

----------------------------------------------------------------------------
(* Properties of the forecast *)

\* The file of a boundary call gives a series of one distinct value
ConstantSeriesFile ==
    /\ BoundaryCall
    /\ call.file_content.size = "ok" /\ call.file_content.readable /\ call.file_content.columns
    /\ NUnique(call.file_content.montant) = 1

IsFlat(values, v) == \A i \in DOMAIN values : values[i] = v

\* C15: for a series of one distinct value the pipeline returns a success
\* record with a flat forecast (point, lower and upper equal to the last
\* amount at every step), a naive model name and no anomalies.
C15_ConstantSeriesNaive ==
    ConstantSeriesFile =>
        LET last_value == SeriesOfCall[Len(SeriesOfCall)]
        IN  /\ result.status = "success"
            /\ result.model_info.name = "NAIVE_CONSTANT"
            /\ IsFlat(result.forecast.values, last_value)
            /\ IsFlat(result.forecast.confidence_lower, last_value)
            /\ IsFlat(result.forecast.confidence_upper, last_value)
            /\ result.anomalies = <<>>

SuccessRecord == PredictionCall /\ result.status = "success"

ConsecutiveMonthsAfter(dates, history_dates) ==
    \A i \in DOMAIN dates : dates[i] = history_dates[Len(history_dates)] + i

\* A request of 3, 6, 12 or 24 months on a history at least as long
StandardRequestOnLongHistory ==
    /\ RequestIsInt
    /\ Requested \in {3, 6, 12, 24}
    /\ TotalOfCall >= Requested

\* C16: in a success record the four lists of the forecast have the length
\* duration_info.validated_months, its dates are the consecutive months
\* after the last month of the history, and a request of 3, 6, 12 or 24
\* months on a long enough history gives that many points.
C16_ForecastShape ==
    SuccessRecord =>
        /\ Len(result.forecast.dates) = result.duration_info.validated_months
        /\ Len(result.forecast.values) = result.duration_info.validated_months
        /\ Len(result.forecast.confidence_upper) = result.duration_info.validated_months
        /\ Len(result.forecast.confidence_lower) = result.duration_info.validated_months
        /\ ConsecutiveMonthsAfter(result.forecast.dates, result.history.dates)
        /\ StandardRequestOnLongHistory => Len(result.forecast.dates) = Requested

----------------------------------------------------------------------------
(* Properties of the anomaly detection.  They read the series and the       *)
(* residuals of the fit from `call`, the list returned from `result`.       *)

\* get_prediction_data fitted a model, which ran the detection
DetectionRan ==
    /\ SuccessRecord
    /\ "anomalies" \in result.keys
    /\ call.results.has_resid

ResidualsOfCall == call.results.resid

MeanTimesN == SumSeq(ResidualsOfCall)

\* n * (sum of squared deviations from the mean), n = number of residuals
SquaredDeviationsTimesN ==
    Len(ResidualsOfCall) * SumSeq([i \in DOMAIN ResidualsOfCall |-> ResidualsOfCall[i] * ResidualsOfCall[i]])
        - MeanTimesN * MeanTimesN

\* |residual| / std compared with k, for the sample standard deviation:
\* residual^2 * (n - 1) against k^2 * (sum of squared deviations)
SigmasAtLeast(residual, k) ==
    residual * residual * Len(ResidualsOfCall) * (Len(ResidualsOfCall) - 1)
        >= k * k * SquaredDeviationsTimesN

SigmasExactly(residual, k) ==
    residual * residual * Len(ResidualsOfCall) * (Len(ResidualsOfCall) - 1)
        = k * k * SquaredDeviationsTimesN

ExpectedSeverity(residual) ==
    IF SigmasAtLeast(residual, 3) THEN "HIGH"
    ELSE IF SigmasAtLeast(residual, 2) THEN "MEDIUM"
    ELSE "LOW"

Emitted == { result.anomalies[i] : i \in DOMAIN result.anomalies }

DetectionReached ==
    /\ PredictionCallOnSeries
    /\ NUnique(SeriesOfCall) > 1
    /\ call.results.kind = "ok"
    /\ result.duration_info.validated_months >= 1

\* C19: the detection never fails the forecast.  Whenever it is reached the
\* record is a success with its anomalies list; the list is empty when the
\* residuals are unavailable and when their standard deviation is zero; a
\* record whose predicted value is 0 has a deviation of 0%, any other one
\* |residual| / predicted * 100.
C19_DetectionNeverFails ==
    (PredictionCallOnSeries /\ NUnique(SeriesOfCall) > 1 /\ call.results.kind = "ok"
        /\ ~(RequestIsInt /\ Requested < 1)) =>
        /\ result.status = "success"
        /\ "anomalies" \in result.keys
        /\ ~call.results.has_resid => result.anomalies = <<>>
        /\ (call.results.has_resid /\ SquaredDeviationsTimesN = 0) => result.anomalies = <<>>
        /\ \A a \in Emitted :
               /\ a.predicted_value = 0 => a.pct_num = 0 /\ a.pct_den # 0
               /\ a.predicted_value # 0 =>
                      a.pct_num = Abs(a.residual) * 100 /\ a.pct_den = a.predicted_value

\* A month whose fitted value is 0 is reported, with a deviation of 0%
C19_Witness ==
    /\ DetectionReached
    /\ result.status = "success"
    /\ \E a \in Emitted : a.predicted_value = 0 /\ a.pct_num = 0

\* The residuals are all equal: nothing is reported
C19_WitnessZeroStd ==
    /\ DetectionReached
    /\ call.results.has_resid /\ SquaredDeviationsTimesN = 0
    /\ result.status = "success" /\ result.anomalies = <<>>

----------------------------------------------------------------------------
(* Properties of the adapters *)

\* The diagnostics of an analysis succeeded, so its tournament ran
TournamentRan == AnalysisCall /\ call.before.df.has_montant /\ call.env.adf # "raise"

\* C20: whichever adapters fail and whichever back ends are installed, the
\* analysis completes with a winner, an unavailable back end is logged with
\* its cause and no failed optional adapter is registered.
C20_AdaptersIsolated ==
    TournamentRan =>
        /\ AnalysisCompleted
        /\ Registered # <<>>
        /\ ~call.env.prophet => Logged("Prophet non installe - ignore")
        /\ ~call.env.tensorflow => Logged("TensorFlow non installe - LSTM ignore")
        /\ ~call.env.var => Logged("non disponible (statsmodels version)")
        /\ \A i \in DOMAIN Registered :
               Registered[i].name \in {N_Prophet, N_LSTM, N_CNN, N_GRU, N_RNN, N_SARIMAX_EXOG, N_VAR, N_VARMA}
                   => Fitted(Registered[i])

----------------------------------------------------------------------------
(* Properties documented on calculate_and_validate_duration *)

AboveSafe == DurationCallOnSeries /\ RequestIsInt /\ Requested > SafeOfCall

REDUCED_WARNING == "SECURITE STATISTIQUE  Duree reduite"

LstmScore == _fit_lstm(call.before, call.env).score

\* C26: _fit_lstm returns a number in every case, a validation MSE with the
\* TensorFlow back end and +inf without it, so the comparison of its score
\* with +inf does not fail the analysis.
C26_LstmReturnsNumber ==
    TournamentRan =>
        /\ LstmScore.kind \in {"num", "inf"}
        /\ call.env.tensorflow => LstmScore.kind = "num"
        /\ ~call.env.tensorflow => LstmScore = Inf
        /\ AnalysisCompleted

----------------------------------------------------------------------------
(* Properties of the diagnostics *)

\* An analysis of a series of fewer than 24 observations
ShortSeriesAnalysis ==
    AnalysisCall /\ call.before.df.has_montant /\ Len(SeriesOfCall) < 24

RegisteredNames == { Registered[i].name : i \in DOMAIN Registered }

\* C27: below 24 observations the analysis does not raise on account of the
\* seasonality test, reports the series as too short for it, registers no
\* seasonal candidate, and the configuration it ends with is not seasonal.
C27_ShortSeriesNotSeasonal ==
    ShortSeriesAnalysis =>
        /\ (call.env.adf # "raise" /\ ~call.env.tensorflow) => AnalysisCompleted
        /\ call.env.adf # "raise" => Logged("Pas assez de donnees pour saisonnalite (< 24 mois)")
        /\ N_SARIMA \notin RegisteredNames
        /\ AnalysisCompleted =>
               /\ predictor.seasonal_order = NoSeason
               /\ predictor.model_name # "SARIMA"

\* ---------------------------------------------------------------------
\* C29.  A record is owned by the caller once returned: the explanations
\* list of a record that get_prediction_data (or the boundary function)
\* has returned reads the same after every later call as at the moment it
\* was returned.
\* ---------------------------------------------------------------------
C29_ReturnedRecordOwned == held.present => held.now = held.returned


----------------------------------------------------------------------------
(* Properties of the service.  They read the request and the response    *)
(* from http, the engine's call from `call` and its record from `result`. *)

\* The route ran the engine for the last request
EngineRan(endpoint) ==
    http.endpoint = endpoint /\ http.engine /\ call.op = "predict_from_file_content"

\* The upload went through the cleaning and gave a series of n months
CleanedSeries(file_content) ==
    file_content.size = "ok" /\ file_content.readable /\ file_content.columns
    /\ file_content.montant # <<>>

\* /predict got a file whose series is too short for the ADF test
ShortSeriesUpload ==
    /\ EngineRan("/predict")
    /\ CleanedSeries(call.file_content)
    /\ Len(call.file_content.montant) < ADF_MIN_ROWS

\* C23.  A series too short for the diagnostics (a single month, for one) is
\* fatal: the pipeline returns status=error with no forecast in the record,
\* and /predict answers that record with an error status, not 200.
C23_ShortSeriesFatal ==
    ShortSeriesUpload =>
        /\ result.status = "error"
        /\ "forecast" \notin result.keys
        /\ result.forecast = NoForecast
        /\ http.status \in {400, 422, 500}
        /\ http.record = result

C23_Witness ==
    /\ ShortSeriesUpload
    /\ call.file_content.montant = SingleRow
    /\ call.stage = "analysis"
    /\ http.status = 400

ProtectedRoutes == {"/predict", "/predict/auto", "/predict/by-code"}

KeyIsValid == http.key.present /\ http.key.value = API_KEY_SECRET

\* Nothing of the engine ran and nothing was written for the last request
NothingRan ==
    /\ ~http.engine
    /\ call = NoCall
    /\ result = BlankRecord
    /\ http.saves = <<>>
    /\ db = http.before

EngineRefused ==
    /\ EngineRan("/predict") \/ EngineRan("/predict/auto")
    /\ result.status # "success"

\* C22.  On /predict and /predict/auto, when the engine's record has a
\* status other than success the response is 400 with that record as its
\* body, and neither save_uploaded_file nor save_prediction is called.
C22_EngineErrorIs400 ==
    EngineRefused =>
        /\ http.status = 400
        /\ http.body = "record"
        /\ http.record = result
        /\ http.saves = <<>>
        /\ db = http.before

C22_Witness ==
    /\ EngineRan("/predict/auto")
    /\ call.file_content.size = "too_big"
    /\ result.status = "error"
    /\ http.status = 400
    /\ http.before = SeededDb

PredictionSucceeded(endpoint) == EngineRan(endpoint) /\ result.status = "success"

\* No user has the key of the request, or the database does not answer
CannotPersist ==
    get_user_by_api_key(http.key.value, http.before) = 0 \/ ~http.request.db_up

\* C25.  After a successful prediction /predict and /predict/auto answer 200
\* with the engine's record whether or not persistence succeeds; on /predict
\* the record is marked persisted = false when persistence failed, and
\* persisted = true with the ids of the rows written when it succeeded.
C25_PersistenceNeverFailsTheRequest ==
    /\ (PredictionSucceeded("/predict") \/ PredictionSucceeded("/predict/auto")) =>
           (http.status = 200 /\ http.body = "record" /\ http.record = result)
    /\ (PredictionSucceeded("/predict") /\ CannotPersist) =>
           (http.internal.present /\ ~http.internal.persisted /\ db = http.before)
    /\ (PredictionSucceeded("/predict") /\ ~CannotPersist) =>
           /\ http.internal.present /\ http.internal.persisted
           /\ http.internal.file_id = Len(http.before.uploaded_files) + 1
           /\ http.internal.pred_id = Len(http.before.predictions) + 1
           /\ http.internal.file_id \in DOMAIN db.uploaded_files
           /\ http.internal.pred_id \in DOMAIN db.predictions
           /\ db.predictions[http.internal.pred_id].file_id = http.internal.file_id

C25_Witness ==
    /\ PredictionSucceeded("/predict")
    /\ http.before = EmptyDb
    /\ http.request.db_up
    /\ http.status = 200
    /\ ~http.internal.persisted

\* C28.  Every success response of /predict/by-code reports the
\* validated_months the duration validator gives for the series and the
\* request, within [3, 24] or equal to a request the validator accepts,
\* the naive fallback of the route included.
C28_ByCodeDurationValidated ==
    (http.endpoint = "/predict/by-code" /\ http.status = 200 /\ http.record.status = "success"
        /\ http.request.file.rows # <<>>) =>
        LET rows == http.request.file.rows
            months == http.request.months
            validated_months == http.record.duration_info.validated_months
        IN  /\ validated_months =
                   calculate_and_validate_duration(SmartPredictor(MakeFrame(rows)), months).value
            /\ \/ validated_months \in MIN_MONTHS..MAX_MONTHS
               \/ /\ months.kind = "int"
                  /\ validated_months = months.val
                  /\ OverrideAccepted(months.val, Len(rows))

----------------------------------------------------------------------------
(* Properties of the persistence endpoints.  A read leaves the tables as  *)
(* they are, so db is the database the answer in http was computed from.  *)

\* The user of the key of the last call, 0 when there is none
Caller == get_user_by_api_key(http.key.value, db)

Answered(endpoint) == http.endpoint = endpoint /\ http.status = 200

Returned(id) == \E i \in DOMAIN http.rows : http.rows[i] = id

\* The prediction asked for exists and belongs to a user other than the caller
ForeignPrediction ==
    /\ http.endpoint = "get_prediction_detail"
    /\ http.request.pred_id \in DOMAIN db.predictions
    /\ db.predictions[http.request.pred_id].user_id # Caller

\* C30.  The persistence endpoints isolate users: get_prediction_detail
\* answers 404 for a prediction of another user's key; list_predictions,
\* list_user_files and list_anomalies return exactly the rows of the
\* caller's user; every anomaly row references an existing prediction, the
\* one returned by the save_prediction call that wrote it.
C30_UsersIsolated ==
    /\ ForeignPrediction => (http.status = 404 /\ http.rows = <<>>)
    /\ Answered("get_prediction_detail") =>
           /\ db.predictions[http.request.pred_id].user_id = Caller
           /\ \A a \in DOMAIN db.anomalies :
                  Returned(a) <=> db.anomalies[a].pred_id = http.request.pred_id
    /\ Answered("list_predictions") =>
           \A p \in DOMAIN db.predictions : Returned(p) <=> db.predictions[p].user_id = Caller
    /\ Answered("list_user_files") =>
           \A f \in DOMAIN db.uploaded_files : Returned(f) <=> db.uploaded_files[f].user_id = Caller
    /\ Answered("list_anomalies") =>
           \A a \in DOMAIN db.anomalies :
               Returned(a) =>
                   /\ db.anomalies[a].pred_id \in DOMAIN db.predictions
                   /\ db.predictions[db.anomalies[a].pred_id].user_id = Caller
    /\ \A a \in DOMAIN db.anomalies : db.anomalies[a].pred_id \in DOMAIN db.predictions
    /\ (http.endpoint = "save_prediction" /\ http.body = "returned") =>
           /\ db.predictions[http.internal.pred_id].user_id = Caller
           /\ \A a \in DOMAIN db.anomalies :
                  a > Len(http.before.anomalies) => db.anomalies[a].pred_id = http.internal.pred_id

\* The second user asks for the first user's prediction, which has an anomaly
C30_Witness ==
    /\ ForeignPrediction
    /\ Caller # 0
    /\ \E a \in DOMAIN db.anomalies : db.anomalies[a].pred_id = http.request.pred_id
    /\ \E p \in DOMAIN db.predictions : db.predictions[p].user_id = Caller
    /\ http.status = 404

====
